---- MODULE Spec2Model ----
(***************************************************************************)
(* A model of the Gupshup WhatsApp channel adapter (openclaw-gupshup):     *)
(* the channel orchestrator (GupshupChannel), its session tracker and      *)
(* access controller, the API client's retry loop (GupshupApiClient), the  *)
(* webhook handler (WebhookHandler), the health probe (GupshupProbe), the  *)
(* account resolver and the message transformer.                           *)
(*                                                                         *)
(* Strings the code inspects character by character (phone numbers) are    *)
(* sequences of one-character strings.  A value that is `undefined` in the *)
(* code is the string Undef where the code holds a string, <<>> where it   *)
(* holds a collection, and 0 for an unset timestamp.                       *)
(***************************************************************************)
EXTENDS Integers, Sequences, FiniteSets, TLC

VARIABLES
    phase,        \* position of the lifecycle: "constructed" | "initialized" | "initFailed"
    config,       \* GupshupChannel.config (NoConfig while null)
    accounts,     \* GupshupChannel.accounts: sequence of resolved accounts
    apiClients,   \* GupshupChannel.apiClients: the set of account names that have a client
    hasWebhookHandler, \* GupshupChannel.webhookHandler !== null
    defaultAccountName, \* the name of the account the webhook handler was bound to
    connected,    \* GupshupChannel.connected
    lastActivity, \* GupshupChannel.lastActivity
    lastError,    \* GupshupChannel.lastError
    sessions,     \* GupshupChannel.sessions: normalized phone -> SessionInfo
    allowlist,    \* GupshupChannel.allowlist: set of normalized phones
    probe,        \* GupshupProbe.accountStatuses: account name -> AccountHealthStatus
    events,       \* the callbacks the caller registered (GupshupChannelEvents)
    now,          \* Date.now()
    ticks,        \* number of clock steps taken so far
    inboundAt,    \* history: normalized phone -> time of its last permitted inbound
    calls,        \* the sendMessage calls: call id -> position and locals of the call
    last          \* history: the last synchronous operation and what it returned

vars == << phase, config, accounts, apiClients, hasWebhookHandler, defaultAccountName,
           connected, lastActivity, lastError, sessions, allowlist, probe, events,
           now, ticks, inboundAt, calls, last >>

----------------------------------------------------------------------------
(* Bounds of the model *)

\* number of clock steps explored
MaxTicks == 2

----------------------------------------------------------------------------
(* Program constants *)

SESSION_WINDOW_MS == 24 * 60 * 60 * 1000

MAX_RETRIES == 3

RETRY_DELAY_MS == 1000

Undef == "<undefined>"

NoConfig == [isNull |-> TRUE]

----------------------------------------------------------------------------
(* Phone numbers *)

Digits == {"0", "1", "2", "3", "4", "5", "6", "7", "8", "9"}

\* phone.replace(/[^\d]/g, '') with every non-digit kept: a normalization that forgets to strip
normalizePhone_keepAll(phone) == phone

\* GupshupChannel.normalizePhone: phone.replace(/[^\d]/g, '')
normalizePhone(phone) == SelectSeq(phone, LAMBDA c : c \in Digits)

\* message-transformer normalizePhone: phone.replace(/[^\d]/g, '')
transformerNormalizePhone(phone) == SelectSeq(phone, LAMBDA c : c \in Digits)

\* GupshupApiClient.normalizePhone: drop everything but digits and '+', then one leading '+'
clientNormalizePhone(phone) ==
    LET kept == SelectSeq(phone, LAMBDA c : c \in Digits \cup {"+"})
    IN  IF Len(kept) > 0 /\ Head(kept) = "+" THEN Tail(kept) ELSE kept

\* the number 15 written three ways, and another number
P15      == << "1", "5" >>
P15plus  == << "+", "1", " ", "5" >>
P15paren == << "(", "1", ")", "-", "5" >>
P19      == << "1", "9" >>

RawPhones == { P15, P15plus, P15paren, P19 }

SourcePhone == << "+", "1", "0" >>

----------------------------------------------------------------------------
(* Account resolution (accounts.ts) *)

\* a string that is `undefined`, for strings modelled as character sequences
UndefStr == << Undef >>

WordChars == Digits \cup {"a", "b", "c", "k", "H", "K", "_"}

Whitespace == {" ", "\n", "\t"}

\* String.prototype.trim on a character sequence
RECURSIVE trimStart(_)
trimStart(s) ==
    IF s # <<>> /\ Head(s) \in Whitespace THEN trimStart(Tail(s)) ELSE s

RECURSIVE trimEnd(_)
trimEnd(s) ==
    IF s # <<>> /\ s[Len(s)] \in Whitespace THEN trimEnd(SubSeq(s, 1, Len(s) - 1)) ELSE s

trim(s) == trimEnd(trimStart(s))

\* process.env: HOME and one more variable
EnvVars == { << "H" >>, << "K" >> }

ProcessEnv(name) ==
    IF name = << "H" >> THEN << "/", "h" >>
    ELSE IF name = << "K" >> THEN << "/", "k" >>
    ELSE UndefStr

\* the longest prefix of s made of word characters
RECURSIVE wordPrefix(_)
wordPrefix(s) ==
    IF s # <<>> /\ Head(s) \in WordChars THEN << Head(s) >> \o wordPrefix(Tail(s)) ELSE <<>>

\* filePath.replace(/\$\{?(\w+)\}?/g, (_, varName) => process.env[varName] ?? '')
RECURSIVE expandVars(_)
expandVars(s) ==
    IF s = <<>> THEN <<>>
    ELSE IF Head(s) = "$"
    THEN LET afterDollar == Tail(s)
             brace == afterDollar # <<>> /\ Head(afterDollar) = "{"
             afterBrace == IF brace THEN Tail(afterDollar) ELSE afterDollar
             name == wordPrefix(afterBrace)
             afterName == SubSeq(afterBrace, Len(name) + 1, Len(afterBrace))
             closing == afterName # <<>> /\ Head(afterName) = "}"
             rest == IF closing THEN Tail(afterName) ELSE afterName
             value == IF ProcessEnv(name) = UndefStr THEN <<>> ELSE ProcessEnv(name)
         IN  IF name = <<>>
             THEN << "$" >> \o expandVars(afterDollar)
             ELSE value \o expandVars(rest)
    ELSE << Head(s) >> \o expandVars(Tail(s))

\* expandPath: '~/' becomes HOME (process.env.HOME ?? ''), otherwise $VAR and ${VAR} are expanded
expandPath(filePath) ==
    IF Len(filePath) >= 2 /\ filePath[1] = "~" /\ filePath[2] = "/"
    THEN ProcessEnv(<< "H" >>) \o Tail(filePath)
    ELSE expandVars(filePath)

\* the files readFileSync can read: expanded path -> content; any other path throws
KeyFileHome == << "/", "h", "/", "k" >>
KeyFileEnv  == << "/", "k", "/", "k" >>

FilePaths == { KeyFileHome, KeyFileEnv }

readFileSync(path) ==
    IF path = KeyFileHome THEN << "a", "b", "c", "1", "\n" >>
    ELSE << " ", "k", "2", " ", "\n" >>

\* loadApiKey, the branch that reads the file at the expanded path
loadApiKeyFromFile(path) ==
    IF path \in FilePaths
    THEN [value |-> trim(readFileSync(path)), ok |-> TRUE, error |-> Undef]
    ELSE [value |-> UndefStr, ok |-> FALSE, error |-> "Failed to read API key from file"]

\* loadApiKey: [ok, value]; value is UndefStr when neither a value nor a file is given
loadApiKey(apiKey, apiKeyFile) ==
    IF apiKey # UndefStr /\ apiKey # <<>>
    THEN [value |-> apiKey, ok |-> TRUE, error |-> Undef]
    ELSE IF apiKeyFile # UndefStr /\ apiKeyFile # <<>>
    THEN loadApiKeyFromFile(expandPath(apiKeyFile))
    ELSE [value |-> UndefStr, ok |-> TRUE, error |-> Undef]

\* a ?? b on strings modelled as character sequences
Coalesce(a, b) == IF a # UndefStr THEN a ELSE b

\* a ?? b on plain strings
CoalesceName(a, b) == IF a # Undef THEN a ELSE b

\* the keys of a template map, in insertion order
TemplateKeys(templates) == [i \in 1..Len(templates) |-> templates[i].key]

HasTemplateKey(templates, key) == \E i \in 1..Len(templates) : templates[i].key = key

TemplateOf(templates, key) ==
    templates[CHOOSE i \in 1..Len(templates) : templates[i].key = key]

\* { ...parent, ...own }: the parent's keys first (own values win), then the keys only own has
MergeTemplates(parent, own) ==
    [i \in 1..Len(parent) |->
        IF HasTemplateKey(own, parent[i].key) THEN TemplateOf(own, parent[i].key) ELSE parent[i]]
    \o SelectSeq(own, LAMBDA t : ~HasTemplateKey(parent, t.key))

DEFAULT_BUSINESS_NAME == "Assistant"

\* the account record of a resolution that threw
NoAccount(name) ==
    [name |-> name, apiKey |-> UndefStr, templates |-> <<>>, appId |-> Undef,
     phoneNumber |-> UndefStr, businessName |-> Undef, webhookSecret |-> Undef]

\* resolveAccount after its call of loadApiKey, whose result is `key`
resolveAccountWithKey(name, accountConfig, parentConfig, key) ==
    IF ~key.ok THEN [ok |-> FALSE, error |-> key.error, account |-> NoAccount(name)]
    ELSE IF key.value = UndefStr \/ key.value = <<>>
    THEN [ok |-> FALSE, error |-> "No API key configured for account", account |-> NoAccount(name)]
    ELSE IF accountConfig.appId = Undef \/ accountConfig.appId = ""
    THEN [ok |-> FALSE, error |-> "No appId configured for account", account |-> NoAccount(name)]
    ELSE IF accountConfig.phoneNumber = UndefStr \/ accountConfig.phoneNumber = <<>>
    THEN [ok |-> FALSE, error |-> "No phoneNumber configured for account",
          account |-> NoAccount(name)]
    ELSE [ok |-> TRUE, error |-> Undef,
          account |-> [name |-> name,
                       apiKey |-> key.value,
                       templates |-> MergeTemplates(parentConfig.templates,
                                                    accountConfig.templates),
                       appId |-> accountConfig.appId,
                       phoneNumber |-> accountConfig.phoneNumber,
                       businessName |-> CoalesceName(accountConfig.businessName,
                                          CoalesceName(parentConfig.businessName,
                                                       DEFAULT_BUSINESS_NAME)),
                       webhookSecret |-> CoalesceName(accountConfig.webhookSecret,
                                                      parentConfig.webhookSecret)]]

\* resolveAccount: one named account of multi-account mode
resolveAccount(name, accountConfig, parentConfig) ==
    resolveAccountWithKey(name, accountConfig, parentConfig,
                          loadApiKey(Coalesce(accountConfig.apiKey, parentConfig.apiKey),
                                     Coalesce(accountConfig.apiKeyFile, parentConfig.apiKeyFile)))

\* resolveSingleAccount after its call of loadApiKey, whose result is `key`
resolveSingleAccountWithKey(cfg, key) ==
    IF ~key.ok THEN [ok |-> FALSE, error |-> key.error, account |-> NoAccount("default")]
    ELSE IF key.value = UndefStr \/ key.value = <<>>
    THEN [ok |-> FALSE, error |-> "No API key configured. Set apiKey or apiKeyFile.",
          account |-> NoAccount("default")]
    ELSE IF cfg.appId = Undef \/ cfg.appId = ""
    THEN [ok |-> FALSE, error |-> "No appId configured", account |-> NoAccount("default")]
    ELSE IF cfg.sourcePhone = UndefStr \/ cfg.sourcePhone = <<>>
    THEN [ok |-> FALSE, error |-> "No sourcePhone configured", account |-> NoAccount("default")]
    ELSE [ok |-> TRUE, error |-> Undef,
          account |-> [name |-> "default",
                       apiKey |-> key.value,
                       templates |-> cfg.templates,
                       appId |-> cfg.appId,
                       phoneNumber |-> cfg.sourcePhone,
                       businessName |-> CoalesceName(cfg.businessName, DEFAULT_BUSINESS_NAME),
                       webhookSecret |-> cfg.webhookSecret]]

\* resolveSingleAccount: the synthetic account 'default' of single-account mode
resolveSingleAccount(cfg) == resolveSingleAccountWithKey(cfg, loadApiKey(cfg.apiKey, cfg.apiKeyFile))

\* the loop of resolveAccounts over the resolutions `each`: the first failure throws
collectAccounts(each) ==
    IF \E i \in 1..Len(each) : ~each[i].ok
    THEN [accounts |-> <<>>,
          ok |-> FALSE,
          error |-> each[CHOOSE i \in 1..Len(each) :
                            ~each[i].ok /\ \A j \in 1..(i - 1) : each[j].ok].error]
    ELSE [accounts |-> [i \in 1..Len(each) |-> each[i].account], ok |-> TRUE, error |-> Undef]

\* resolveAccounts: [ok, error, accounts]
resolveAccounts(cfg) ==
    IF Len(cfg.accounts) > 0
    THEN collectAccounts([i \in 1..Len(cfg.accounts) |->
                             resolveAccount(cfg.accounts[i].name, cfg.accounts[i].cfg, cfg)])
    ELSE collectAccounts(<< resolveSingleAccount(cfg) >>)

\* resolveDefaultAccount falling back to the first account when the named one is missing
pickDefaultAccount_firstIfMissing(cfg, all) ==
    IF ~all.ok THEN [name |-> Undef, ok |-> FALSE, error |-> all.error]
    ELSE IF Len(all.accounts) = 0
    THEN [name |-> Undef, ok |-> FALSE, error |-> "No accounts configured"]
    ELSE [name |-> all.accounts[1].name, ok |-> TRUE, error |-> Undef]

\* resolveDefaultAccount after its call of resolveAccounts, whose result is `all`
pickDefaultAccount(cfg, all) ==
    IF ~all.ok THEN [name |-> Undef, ok |-> FALSE, error |-> all.error]
    ELSE IF Len(all.accounts) = 0
    THEN [name |-> Undef, ok |-> FALSE, error |-> "No accounts configured"]
    ELSE IF cfg.defaultAccount # Undef /\ cfg.defaultAccount # ""
    THEN IF \E i \in 1..Len(all.accounts) : all.accounts[i].name = cfg.defaultAccount
         THEN [name |-> cfg.defaultAccount, ok |-> TRUE, error |-> Undef]
         ELSE [name |-> Undef, ok |-> FALSE, error |-> "Default account not found"]
    ELSE [name |-> all.accounts[1].name, ok |-> TRUE, error |-> Undef]

\* resolveDefaultAccount: [ok, error, name]; the named default, else the first account
resolveDefaultAccount(cfg) == pickDefaultAccount(cfg, resolveAccounts(cfg))

----------------------------------------------------------------------------
(* Configurations the channel is initialized with *)

T1 == [key |-> "followup", id |-> "tpl_followup", paramCount |-> 1]
T2 == [key |-> "notify", id |-> "tpl_notify", paramCount |-> 0]

BaseConfig ==
    [accounts |-> <<>>, apiKey |-> << "k", "1" >>, apiKeyFile |-> UndefStr, templates |-> <<>>,
     appId |-> "app", businessName |-> Undef, webhookSecret |-> Undef,
     sourcePhone |-> SourcePhone, defaultAccount |-> Undef, dmPolicy |-> Undef, allowFrom |-> <<>>]

AcctMain ==
    [apiKey |-> UndefStr, apiKeyFile |-> UndefStr, templates |-> <<>>,
     appId |-> "app_main", phoneNumber |-> << "+", "2", "0" >>, businessName |-> Undef,
     webhookSecret |-> Undef]

AcctAlt ==
    [apiKey |-> << "k", "2" >>, apiKeyFile |-> UndefStr, templates |-> << T2 >>,
     appId |-> "app_alt", phoneNumber |-> << "+", "3", "0" >>, businessName |-> "Alt",
     webhookSecret |-> Undef]

TwoAccounts == << [name |-> "main", cfg |-> AcctMain], [name |-> "alt", cfg |-> AcctAlt] >>

\* single account, no policy set, no templates
CfgOpen == BaseConfig

\* single account, allowlist policy, two templates, a webhook secret
CfgAllowlist ==
    [BaseConfig EXCEPT !.dmPolicy = "allowlist", !.allowFrom = << P15 >>,
                       !.templates = << T1, T2 >>, !.webhookSecret = "s3cret"]

\* two accounts (the first, without templates, is the default), pairing policy
CfgPairing ==
    [BaseConfig EXCEPT !.dmPolicy = "pairing", !.allowFrom = << P15plus >>,
                       !.accounts = TwoAccounts]

\* single account, a policy value the code does not know
CfgUnknownPolicy ==
    [BaseConfig EXCEPT !.dmPolicy = "blocklist", !.allowFrom = << P19 >>,
                       !.templates = << T2 >>]

\* two accounts with a named default, explicit open policy
CfgOpenMulti ==
    [BaseConfig EXCEPT !.dmPolicy = "open", !.accounts = TwoAccounts,
                       !.defaultAccount = "alt", !.templates = << T1 >>]

Configs == { CfgOpen, CfgAllowlist, CfgPairing, CfgUnknownPolicy, CfgOpenMulti }

\* credential file paths as configured: under HOME, under $K, and one that does not exist
PathHome == << "~", "/", "k" >>
PathEnv == << "$", "K", "/", "k" >>
PathMissing == << "/", "x" >>

\* a multi-account configuration: the account "main" as given, then the account "alt"
MultiConfig(topKey, topFile, acctKey, acctFile, appId, phoneNumber, dflt) ==
    [BaseConfig EXCEPT
        !.apiKey = topKey, !.apiKeyFile = topFile, !.defaultAccount = dflt,
        !.businessName = "Top", !.webhookSecret = "s3cret",
        !.accounts = << [name |-> "main",
                         cfg |-> [AcctMain EXCEPT !.apiKey = acctKey, !.apiKeyFile = acctFile,
                                                  !.appId = appId, !.phoneNumber = phoneNumber]],
                        [name |-> "alt", cfg |-> AcctAlt] >>]

SingleConfig(topKey, topFile, appId, sourcePhone) ==
    [BaseConfig EXCEPT !.apiKey = topKey, !.apiKeyFile = topFile, !.appId = appId,
                       !.sourcePhone = sourcePhone]

\* configurations with every combination of credentials, set, unset and unreadable
ResolveConfigs ==
    { MultiConfig(topKey, topFile, acctKey, acctFile, appId, phoneNumber, dflt) :
        topKey \in { UndefStr, << "k", "1" >> },
        topFile \in { UndefStr, PathHome, PathMissing },
        acctKey \in { UndefStr, << "k", "9" >> },
        acctFile \in { UndefStr, PathEnv, PathMissing },
        appId \in { Undef, "app_main" },
        phoneNumber \in { UndefStr, << "+", "2", "0" >> },
        dflt \in { Undef, "alt", "ghost" } }
    \cup { SingleConfig(topKey, topFile, appId, sourcePhone) :
             topKey \in { UndefStr, << "k", "1" >> },
             topFile \in { UndefStr, PathHome, PathMissing },
             appId \in { Undef, "app" },
             sourcePhone \in { UndefStr, SourcePhone } }

AllEvents == { "onMessage", "onStatusUpdate", "onUserEvent", "onAccessDenied" }

EventSets == { AllEvents, {} }

----------------------------------------------------------------------------
(* State after construction *)

EmptyMap == [k \in {} |-> 0]

StartTime == 2 * SESSION_WINDOW_MS

CallIds == { "A", "B" }

NoError == [name |-> Undef, isSet |-> FALSE, code |-> Undef, message |-> <<>>, statusCode |-> 0]

NoResponse == [kind |-> "none", status |-> 0, body |-> Undef, errCode |-> Undef, msgId |-> Undef]

NoResult == [error |-> <<>>, success |-> FALSE, messageId |-> Undef]

\* a sendMessage call that has not been made: its locals at their initial values
IdleCall ==
    [path |-> "none", account |-> Undef,
     message |-> [type |-> Undef, text |-> << Undef >>, filename |-> Undef, caption |-> Undef,
                  url |-> Undef, templateId |-> Undef, params |-> <<>>],
     pc |-> "idle", layer |-> Undef, dest |-> <<>>,
     content |-> [type |-> "text", text |-> << Undef >>, filename |-> Undef, caption |-> Undef,
                  mediaUrl |-> Undef, mimeType |-> Undef, hasLocation |-> FALSE,
                  hasContact |-> FALSE],
     accountName |-> Undef,
     wireDest |-> <<>>, retry |-> TRUE, attempt |-> 0, ffPosts |-> 0, tplPosts |-> 0,
     delays |-> <<>>, lastErr |-> NoError, resp |-> NoResponse, caughtSessionExpired |-> FALSE,
     threw |-> FALSE, result |-> NoResult]

Init ==
    /\ phase = "constructed"
    /\ config = NoConfig
    /\ accounts = <<>>
    /\ apiClients = {}
    /\ hasWebhookHandler = FALSE
    /\ defaultAccountName = Undef
    /\ connected = FALSE
    /\ lastActivity = 0
    /\ lastError = UndefStr
    /\ sessions = EmptyMap
    /\ allowlist = {}
    /\ probe = [isNull |-> TRUE, statuses |-> EmptyMap]
    /\ events \in EventSets
    /\ now = StartTime
    /\ ticks = 0
    /\ inboundAt = EmptyMap
    /\ calls = [c \in CallIds |-> IdleCall]
    /\ last = [op |-> "new"]

----------------------------------------------------------------------------
(* Health probe (GupshupProbe) *)

\* new GupshupProbe(config): every resolved account starts not connected
NewProbe(accts) ==
    [isNull |-> FALSE,
     statuses |-> [n \in { accts[i].name : i \in 1..Len(accts) } |->
                      [connected |-> FALSE,
                       lastActivity |-> 0,
                       name |-> n,
                       error |-> UndefStr,
                       phoneNumber |->
                           (accts[CHOOSE i \in 1..Len(accts) : accts[i].name = n]).phoneNumber]]]

\* this.probe?.updateActivity(accountName)
updateActivity(p, accountName) ==
    IF ~p.isNull /\ accountName \in DOMAIN p.statuses
    THEN [p EXCEPT !.statuses[accountName] =
             [@ EXCEPT !.lastActivity = now, !.connected = TRUE, !.error = UndefStr]]
    ELSE p

\* markUnhealthy leaving the record as it is
markUnhealthy_ignored(p, accountName, error) == p

\* this.probe?.markUnhealthy(accountName, error)
markUnhealthy(p, accountName, error) ==
    IF ~p.isNull /\ accountName \in DOMAIN p.statuses
    THEN [p EXCEPT !.statuses[accountName] = [@ EXCEPT !.connected = FALSE, !.error = error]]
    ELSE p

\* what the request of checkAccount can meet: an answer that is neither 401 nor 403, one
\* that is, or a failure of the request
HealthAnswers == { "ok", "unauthorized", "network" }

\* GupshupProbe.checkAccount: the status of one account after the check
checkAccount(existing, checkApi, answer) ==
    IF ~checkApi THEN existing
    ELSE [existing EXCEPT
             !.connected = (answer = "ok"),
             !.error = CASE answer = "ok" -> UndefStr
                         [] answer = "unauthorized" -> << "Authentication failed" >>
                         [] OTHER -> << "fetch failed" >>]

\* GupshupChannel.checkHealth(checkApi) and GupshupProbe.check, every account meeting the
\* same answer
CheckHealth(checkApi, answer) ==
    LET statuses == [n \in DOMAIN probe.statuses |->
                        checkAccount(probe.statuses[n], checkApi, answer)]
    IN  /\ IF probe.isNull
           THEN /\ last' = [op |-> "checkHealth", healthy |-> connected]
                /\ UNCHANGED probe
           ELSE /\ probe' = [probe EXCEPT !.statuses = statuses]
                /\ last' = [op |-> "checkHealth",
                            healthy |-> \E n \in DOMAIN statuses : statuses[n].connected]
        /\ UNCHANGED << phase, config, accounts, apiClients, hasWebhookHandler,
                        defaultAccountName, connected, lastActivity, lastError, sessions,
                        allowlist, events, now, ticks, inboundAt, calls >>

\* the health route answering 200 whatever the probe says
RouteStatus_always200(healthy) == 200

\* status: health.healthy ? 200 : 503
RouteStatus(healthy) == IF healthy THEN 200 ELSE 503

\* the GET handler of the health route: checkHealth(false), which keeps every account's
\* cached record, and the status code chosen from its healthy flag
HealthRoute ==
    LET statuses == [n \in DOMAIN probe.statuses |->
                        checkAccount(probe.statuses[n], FALSE, "ok")]
        healthy == IF probe.isNull THEN connected
                   ELSE \E n \in DOMAIN statuses : statuses[n].connected
    IN  /\ probe' = IF probe.isNull THEN probe ELSE [probe EXCEPT !.statuses = statuses]
        /\ last' = [status |-> RouteStatus(healthy), op |-> "healthRoute", healthy |-> healthy]
        /\ UNCHANGED << phase, config, accounts, apiClients, hasWebhookHandler,
                        defaultAccountName, connected, lastActivity, lastError, sessions,
                        allowlist, events, now, ticks, inboundAt, calls >>

----------------------------------------------------------------------------
(* Lifecycle: initialize, start, stop *)

NormalizedAllowFrom(cfg) == { normalizePhone(cfg.allowFrom[i]) : i \in 1..Len(cfg.allowFrom) }

AccountNames(accts) == { accts[i].name : i \in 1..Len(accts) }

\* the body of initialize, given what resolveAccounts and resolveDefaultAccount return for cfg
InitializeWith(cfg, resolved, dflt) ==
    /\ phase = "constructed"
    /\ config' = cfg
    /\ IF ~resolved.ok
       THEN /\ phase' = "initFailed"
            /\ last' = [error |-> resolved.error, threw |-> TRUE, op |-> "initialize"]
            /\ UNCHANGED << accounts, apiClients, allowlist, probe, hasWebhookHandler,
                            defaultAccountName >>
       ELSE /\ accounts' = resolved.accounts
            /\ apiClients' = apiClients \cup AccountNames(resolved.accounts)
            /\ allowlist' = allowlist \cup NormalizedAllowFrom(cfg)
            /\ probe' = NewProbe(resolved.accounts)
            /\ IF ~dflt.ok
               THEN /\ phase' = "initFailed"
                    /\ last' = [error |-> dflt.error, threw |-> TRUE, op |-> "initialize"]
                    /\ UNCHANGED << hasWebhookHandler, defaultAccountName >>
               ELSE /\ phase' = "initialized"
                    /\ hasWebhookHandler' = TRUE
                    /\ defaultAccountName' = dflt.name
                    /\ last' = [error |-> Undef, threw |-> FALSE, op |-> "initialize"]
    /\ UNCHANGED << connected, lastActivity, lastError, sessions, events, now, ticks,
                    inboundAt, calls >>

\* GupshupChannel.initialize: the assignments made before a throw stay made
Initialize(cfg) == InitializeWith(cfg, resolveAccounts(cfg), resolveDefaultAccount(cfg))

\* start() beginning with an empty session map
Start_fresh ==
    /\ IF config = NoConfig \/ apiClients = {}
       THEN /\ last' = [error |-> "Channel not initialized. Call initialize() first.", threw |-> TRUE,
                        op |-> "start"]
            /\ UNCHANGED << connected, lastActivity, lastError, sessions >>
       ELSE /\ connected' = TRUE
            /\ lastActivity' = now
            /\ lastError' = UndefStr
            /\ sessions' = EmptyMap
            /\ last' = [error |-> Undef, threw |-> FALSE, op |-> "start"]
    /\ UNCHANGED << phase, config, accounts, apiClients, hasWebhookHandler, defaultAccountName,
                    allowlist, probe, events, now, ticks, inboundAt, calls >>

\* GupshupChannel.start
Start ==
    /\ IF config = NoConfig \/ apiClients = {}
       THEN /\ last' = [error |-> "Channel not initialized. Call initialize() first.", threw |-> TRUE,
                        op |-> "start"]
            /\ UNCHANGED << connected, lastActivity, lastError >>
       ELSE /\ connected' = TRUE
            /\ lastActivity' = now
            /\ lastError' = UndefStr
            /\ last' = [error |-> Undef, threw |-> FALSE, op |-> "start"]
    /\ UNCHANGED << phase, config, accounts, apiClients, hasWebhookHandler, defaultAccountName,
                    sessions, allowlist, probe, events, now, ticks, inboundAt, calls >>

\* GupshupChannel.stop
Stop ==
    /\ connected' = FALSE
    /\ last' = [op |-> "stop"]
    /\ UNCHANGED << phase, config, accounts, apiClients, hasWebhookHandler, defaultAccountName,
                    lastActivity, lastError, sessions, allowlist, probe, events, now, ticks,
                    inboundAt, calls >>

\* the clock advances by 1 ms or by one millisecond less than the session window
TickSteps == { 1, SESSION_WINDOW_MS - 1 }

Tick(d) ==
    /\ ticks < MaxTicks
    /\ now' = now + d
    /\ ticks' = ticks + 1
    /\ last' = [op |-> "tick"]
    /\ UNCHANGED << phase, config, accounts, apiClients, hasWebhookHandler, defaultAccountName,
                    connected, lastActivity, lastError, sessions, allowlist, probe, events,
                    inboundAt, calls >>

----------------------------------------------------------------------------
(* Access control and session tracking (GupshupChannel) *)

\* this.config?.dmPolicy ?? 'open'
PolicyOf(cfg) == IF cfg = NoConfig THEN "open" ELSE CoalesceName(cfg.dmPolicy, "open")

\* checkAccess with the allowlist test dropped from the pairing and allowlist cases
checkAccess_sessionsOnly(phone) ==
    LET policy == PolicyOf(config)
        normalized == normalizePhone(phone)
    IN  CASE policy = "open" -> TRUE
          [] policy = "allowlist" -> normalized \in DOMAIN sessions
          [] policy = "pairing" -> normalized \in DOMAIN sessions
          [] OTHER -> TRUE

\* GupshupChannel.checkAccess
checkAccess(phone) ==
    LET policy == PolicyOf(config)
        normalized == normalizePhone(phone)
    IN  CASE policy = "open" -> TRUE
          [] policy = "allowlist" -> normalized \in allowlist
          [] policy = "pairing" -> normalized \in allowlist \/ normalized \in DOMAIN sessions
          [] OTHER -> TRUE

\* the allowlist after addToAllowlist(phone)
AllowlistAfterAdd(phone) == allowlist \cup { normalizePhone(phone) }

\* the allowlist after removeFromAllowlist(phone)
AllowlistAfterRemove(phone) == allowlist \ { normalizePhone(phone) }

\* GupshupChannel.addToAllowlist
AddToAllowlist(phone) ==
    /\ allowlist' = AllowlistAfterAdd(phone)
    /\ last' = [phone |-> phone, op |-> "addToAllowlist"]
    /\ UNCHANGED << phase, config, accounts, apiClients, hasWebhookHandler, defaultAccountName,
                    connected, lastActivity, lastError, sessions, probe, events, now, ticks,
                    inboundAt, calls >>

\* GupshupChannel.removeFromAllowlist
RemoveFromAllowlist(phone) ==
    /\ allowlist' = AllowlistAfterRemove(phone)
    /\ last' = [phone |-> phone, op |-> "removeFromAllowlist"]
    /\ UNCHANGED << phase, config, accounts, apiClients, hasWebhookHandler, defaultAccountName,
                    connected, lastActivity, lastError, sessions, probe, events, now, ticks,
                    inboundAt, calls >>

\* updateSession leaving an entry that already exists as it is
SessionsAfterUpdate_keepFirst(phone) ==
    LET normalized == normalizePhone(phone)
    IN  IF normalized \in DOMAIN sessions THEN sessions
        ELSE [k \in DOMAIN sessions \cup { normalized } |->
                 IF k = normalized
                 THEN [phone |-> normalized, lastMessageAt |-> now, isActive |-> TRUE]
                 ELSE sessions[k]]

\* the session map after updateSession(phone)
SessionsAfterUpdate(phone) ==
    LET normalized == normalizePhone(phone)
    IN  [k \in DOMAIN sessions \cup { normalized } |->
            IF k = normalized
            THEN [phone |-> normalized, lastMessageAt |-> now, isActive |-> TRUE]
            ELSE sessions[k]]

\* the freshness test of getSession with <= in place of <
FreshAt_inclusive(lastMessageAt) == now - lastMessageAt <= SESSION_WINDOW_MS

\* now - session.lastMessageAt < SESSION_WINDOW_MS
FreshAt(lastMessageAt) == now - lastMessageAt < SESSION_WINDOW_MS

\* getSession that trusts the stored flag instead of recomputing it
getSession_storedFlag(phone) ==
    LET normalized == normalizePhone(phone)
    IN  IF normalized \notin DOMAIN sessions
        THEN [phone |-> normalized, lastMessageAt |-> 0, isActive |-> FALSE]
        ELSE sessions[normalized]

\* GupshupChannel.getSession
getSession(phone) ==
    LET normalized == normalizePhone(phone)
    IN  IF normalized \notin DOMAIN sessions
        THEN [phone |-> normalized, lastMessageAt |-> 0, isActive |-> FALSE]
        ELSE [sessions[normalized] EXCEPT !.isActive = FreshAt(sessions[normalized].lastMessageAt)]

\* GupshupChannel.isSessionActive
isSessionActive(phone) == getSession(phone).isActive

\* getActiveSessions returning the entries whose stored flag is set
getActiveSessions_storedFlag == { sessions[k] : k \in { x \in DOMAIN sessions : sessions[x].isActive } }

\* GupshupChannel.getActiveSessions, as the set of the sessions returned
getActiveSessions ==
    { [sessions[k] EXCEPT !.isActive = TRUE] :
        k \in { x \in DOMAIN sessions : FreshAt(sessions[x].lastMessageAt) } }

\* the keys deleted when only entries older than the window are expired
ExpiredKeys_olderOnly == { k \in DOMAIN sessions : now - sessions[k].lastMessageAt > SESSION_WINDOW_MS }

\* the keys clearExpiredSessions deletes
ExpiredKeys == { k \in DOMAIN sessions : now - sessions[k].lastMessageAt >= SESSION_WINDOW_MS }

\* the purge deleting every entry
SessionsAfterClear_everything == EmptyMap

\* the session map after clearExpiredSessions
SessionsAfterClear == [k \in DOMAIN sessions \ ExpiredKeys |-> sessions[k]]

\* GupshupChannel.clearExpiredSessions
ClearExpiredSessions ==
    /\ sessions' = SessionsAfterClear
    /\ last' = [op |-> "clearExpiredSessions", cleared |-> Cardinality(ExpiredKeys)]
    /\ UNCHANGED << phase, config, accounts, apiClients, hasWebhookHandler, defaultAccountName,
                    connected, lastActivity, lastError, allowlist, probe, events, now, ticks,
                    inboundAt, calls >>

\* GupshupChannel.isSessionActive(phone): a read, returning the flag of getSession(phone)
IsSessionActive(phone) ==
    /\ last' = [phone |-> phone, op |-> "isSessionActive", session |-> getSession(phone),
                active |-> isSessionActive(phone)]
    /\ UNCHANGED << phase, config, accounts, apiClients, hasWebhookHandler, defaultAccountName,
                    connected, lastActivity, lastError, sessions, allowlist, probe, events, now,
                    ticks, inboundAt, calls >>

----------------------------------------------------------------------------
(* Inbound side of the message transformer and the webhook handler *)

\* text of the code is a sequence of tokens: one token per character, or one per literal
Text(t) == << t >>

\* transformInboundContent treating every type as one it has no case for
transformInboundContent_placeholder(type, payload) ==
    [type |-> "text", text |-> << "[Received ", type, " message]" >>, filename |-> Undef,
     caption |-> Undef, mediaUrl |-> Undef, mimeType |-> Undef, hasLocation |-> FALSE,
     hasContact |-> FALSE]

\* transformInboundContent: the envelope content for a provider message of the given type
transformInboundContent(type, payload) ==
    LET none == [type |-> type, text |-> UndefStr, filename |-> Undef, caption |-> Undef,
                 mediaUrl |-> Undef, mimeType |-> Undef, hasLocation |-> FALSE,
                 hasContact |-> FALSE]
    IN  CASE type = "text" -> [none EXCEPT !.text = payload.text]
          [] type = "image" ->
                [none EXCEPT !.mediaUrl = payload.url, !.mimeType = payload.contentType,
                             !.caption = payload.caption]
          [] type = "document" ->
                [none EXCEPT !.mediaUrl = payload.url, !.mimeType = payload.contentType,
                             !.filename = payload.filename, !.caption = payload.caption]
          [] type = "audio" ->
                [none EXCEPT !.mediaUrl = payload.url, !.mimeType = payload.contentType]
          [] type = "video" ->
                [none EXCEPT !.mediaUrl = payload.url, !.mimeType = payload.contentType,
                             !.caption = payload.caption]
          [] type = "location" -> [none EXCEPT !.hasLocation = TRUE]
          [] type = "contact" -> [none EXCEPT !.hasContact = TRUE]
          [] type = "sticker" ->
                [none EXCEPT !.mediaUrl = payload.url, !.mimeType = payload.contentType]
          [] OTHER ->
                [none EXCEPT !.type = "text",
                             !.text = << "[Received ", type, " message]" >>]

\* transformInbound never failing, whatever the payload lacks
transformInbound_lenient(body, recipientPhone) ==
    [content |-> transformInboundContent(body.mtype, body.payload),
     threw |-> FALSE,
     sender |-> transformerNormalizePhone(body.phone),
     recipient |-> transformerNormalizePhone(recipientPhone)]

\* the types transformInboundContent has a case for
InboundTypes == { "text", "image", "document", "audio", "video", "location", "contact", "sticker" }

\* transformInbound: [threw, envelope]; a TypeError when a case of transformInboundContent
\* reads a content object that is not there, when a contact payload has no name object, and
\* when the payload has no sender object
transformInbound(body, recipientPhone) ==
    IF \/ ~body.senderOk
       \/ (body.mtype \in InboundTypes /\ ~body.payload.isObject)
       \/ (body.mtype = "contact" /\ ~body.payload.hasName)
    THEN [content |-> transformInboundContent("none", body.payload), threw |-> TRUE, sender |-> <<>>,
          recipient |-> <<>>]
    ELSE [content |-> transformInboundContent(body.mtype, body.payload),
          threw |-> FALSE,
          sender |-> transformerNormalizePhone(body.phone),
          recipient |-> transformerNormalizePhone(recipientPhone)]

NoPayload ==
    [text |-> UndefStr, filename |-> Undef, caption |-> Undef, url |-> Undef,
     contentType |-> Undef, isObject |-> TRUE, hasName |-> FALSE]

\* a webhook body: raw stands for its text, parse says what JSON.parse makes of it
BodyRecord(raw, parse, type, mtype, phone, id, senderOk, payload) ==
    [phone |-> phone, id |-> id, type |-> type, payload |-> payload, mtype |-> mtype,
     senderOk |-> senderOk, raw |-> raw, parse |-> parse]

BodyGarbage == BodyRecord(<< "{not json" >>, "bad", Undef, Undef, <<>>, Undef, FALSE, NoPayload)

BodyNull == BodyRecord(<< "null" >>, "null", Undef, Undef, <<>>, Undef, FALSE, NoPayload)

MessageBody(phone, mtype) ==
    BodyRecord(<< "message", mtype >> \o phone, "object", "message", mtype, phone, "in1", TRUE,
               [NoPayload EXCEPT !.text = Text("hello")])

BodyNoSender ==
    BodyRecord(<< "message", "nosender" >>, "object", "message", "text", <<>>, "in2", FALSE,
               [NoPayload EXCEPT !.text = Text("hello")])

BodyDelivered ==
    BodyRecord(<< "message-event", "delivered" >>, "object", "message-event", "delivered", P15plus,
               "m1", TRUE, NoPayload)

BodyOptedIn ==
    BodyRecord(<< "user-event", "opted-in" >>, "object", "user-event", "opted-in", P15plus,
               Undef, TRUE, NoPayload)

BodyBilling ==
    BodyRecord(<< "billing-event" >>, "object", "billing-event", Undef, <<>>, Undef, TRUE,
               NoPayload)

MessageBodies == { MessageBody(p, "text") : p \in RawPhones }

WebhookBodies ==
    MessageBodies
    \cup { MessageBody(P19, "reaction"), BodyGarbage, BodyNull, BodyNoSender, BodyDelivered,
           BodyOptedIn, BodyBilling }

\* createHmac('sha256', secret).update(body).digest('hex'), as an injective function of both
Hmac(secret, raw) == << "sha256", secret >> \o raw

\* the signature argument when the request has no signature header
NoSig == UndefStr

\* a signature header that is present and empty
EmptySig == <<>>

\* the signatures a request may carry: none, an empty one, the right one, one made with
\* another secret (same length as the right one), and one of another length
SignaturesFor(body) ==
    { NoSig, EmptySig, Hmac("s3cret", body.raw), Hmac("guess!", body.raw), << "sha256" >> }

\* validateSignature accepting every signature of the expected length
validateSignature_lengthOnly(secret, raw, signature) ==
    IF secret = Undef \/ secret = "" THEN TRUE
    ELSE Len(signature) = Len(Hmac(secret, raw))

\* validateSignature: length test, then timingSafeEqual
validateSignature(secret, raw, signature) ==
    IF secret = Undef \/ secret = "" THEN TRUE
    ELSE IF Len(signature) # Len(Hmac(secret, raw)) THEN FALSE
    ELSE signature = Hmac(secret, raw)

\* what a callback of the caller does when invoked
CallbackOutcomes == { "ok", "throwError", "throwSyntaxError" }

\* the name of the error a callback outcome throws
ThrownBy(outcome) ==
    CASE outcome = "throwError" -> "Error"
      [] outcome = "throwSyntaxError" -> "SyntaxError"
      [] OTHER -> "none"

\* the secret the webhook handler was constructed with: the default account's
HandlerSecret ==
    IF \E i \in 1..Len(accounts) : accounts[i].name = defaultAccountName
    THEN (accounts[CHOOSE i \in 1..Len(accounts) : accounts[i].name = defaultAccountName]).webhookSecret
    ELSE Undef

HandlerSourcePhone ==
    IF \E i \in 1..Len(accounts) : accounts[i].name = defaultAccountName
    THEN (accounts[CHOOSE i \in 1..Len(accounts) : accounts[i].name = defaultAccountName]).phoneNumber
    ELSE <<>>

Invocation(cb, phone, arg, id) == [phone |-> phone, id |-> id, cb |-> cb, arg |-> arg]

\* the catch of WebhookHandler.handleWebhook answering 400 whatever the error
StatusForError_always400(errorName) == 400

\* the catch of WebhookHandler.handleWebhook: 400 for an error named SyntaxError, else 200
StatusForError(errorName) == IF errorName = "SyntaxError" THEN 400 ELSE 200

\* the onMessage handler recording whoever writes
InboundPermitted_always(senderId) == TRUE

\* the access test of the onMessage handler given to the webhook handler
InboundPermitted(senderId) == checkAccess(senderId)

\* WebhookHandler / GupshupChannel onMessage, onStatusUpdate, onUserEvent: what routing the
\* payload does: [threw (error name), cbs (the caller's callbacks invoked), and the new
\* sessions, lastActivity, probe, inboundAt]
RoutePayload(body, cbOutcome) ==
    LET quiet == [lastActivity |-> lastActivity, sessions |-> sessions, probe |-> probe,
                  inboundAt |-> inboundAt, threw |-> "none", cbs |-> <<>>]
        env == transformInbound(body, HandlerSourcePhone)
    IN  IF body.parse = "null" THEN [quiet EXCEPT !.threw = "TypeError"]
        ELSE IF body.type = "message"
        THEN IF env.threw THEN [quiet EXCEPT !.threw = "TypeError"]
             ELSE IF ~InboundPermitted(env.sender)
             THEN IF "onAccessDenied" \in events
                  THEN [quiet EXCEPT
                           !.cbs = << Invocation("onAccessDenied", env.sender, PolicyOf(config), Undef) >>,
                           !.threw = ThrownBy(cbOutcome)]
                  ELSE quiet
             ELSE LET recorded ==
                          [quiet EXCEPT
                              !.sessions = SessionsAfterUpdate(env.sender),
                              !.lastActivity = now,
                              !.probe = updateActivity(probe, defaultAccountName),
                              !.inboundAt = [k \in DOMAIN inboundAt \cup { normalizePhone(env.sender) } |->
                                                IF k = normalizePhone(env.sender) THEN now
                                                ELSE inboundAt[k]]]
                  IN  IF "onMessage" \in events
                      THEN [recorded EXCEPT
                               !.cbs = << Invocation("onMessage", env.sender, env.content.type, body.id) >>,
                               !.threw = ThrownBy(cbOutcome)]
                      ELSE recorded
        ELSE IF body.type = "message-event"
        THEN LET touched == [quiet EXCEPT !.lastActivity = now,
                                          !.probe = updateActivity(probe, defaultAccountName)]
             IN  IF "onStatusUpdate" \in events
                 THEN [touched EXCEPT
                          !.cbs = << Invocation("onStatusUpdate", body.phone, body.mtype, body.id) >>,
                          !.threw = ThrownBy(cbOutcome)]
                 ELSE touched
        ELSE IF body.type = "user-event"
        THEN IF "onUserEvent" \in events
             THEN [quiet EXCEPT
                      !.cbs = << Invocation("onUserEvent", body.phone, body.mtype, Undef) >>,
                      !.threw = ThrownBy(cbOutcome)]
             ELSE quiet
        ELSE quiet

\* the gate validating whenever a secret is configured, signature or not
SignatureGate_secretOnly(secret, sig) == secret # Undef /\ secret # ""

\* if (this.config.webhookSecret && signature): both truthy
SignatureGate(secret, sig) ==
    /\ secret # Undef /\ secret # ""
    /\ sig # NoSig /\ sig # EmptySig

\* the answer of handleWebhook, with what the call did: caught is the name of the error its
\* catch received ("none" without one), validated says whether validateSignature ran
WebhookReply(body, sig, status, warning, validated, cbs, caught) ==
    [status |-> status, body |-> body, op |-> "handleWebhook", cbs |-> cbs,
     sig |-> sig, warning |-> warning, validated |-> validated, caught |-> caught]

\* GupshupChannel.handleWebhook and WebhookHandler.handleWebhook
HandleWebhook(body, sig, cbOutcome) ==
    LET secret == HandlerSecret
        validate == SignatureGate(secret, sig)
        routed == RoutePayload(body, cbOutcome)
    IN  /\ IF ~hasWebhookHandler
           THEN /\ last' = WebhookReply(body, sig, 500, FALSE, FALSE, <<>>, "none")
                /\ UNCHANGED << sessions, lastActivity, probe, inboundAt >>
           ELSE IF body.parse = "bad"
           THEN /\ last' = WebhookReply(body, sig, StatusForError("SyntaxError"), FALSE, FALSE,
                                        <<>>, "SyntaxError")
                /\ UNCHANGED << sessions, lastActivity, probe, inboundAt >>
           ELSE IF validate /\ ~validateSignature(secret, body.raw, sig)
           THEN /\ last' = WebhookReply(body, sig, 401, FALSE, TRUE, <<>>, "none")
                /\ UNCHANGED << sessions, lastActivity, probe, inboundAt >>
           ELSE /\ sessions' = routed.sessions
                /\ lastActivity' = routed.lastActivity
                /\ probe' = routed.probe
                /\ inboundAt' = routed.inboundAt
                /\ last' = IF routed.threw = "none"
                           THEN WebhookReply(body, sig, 200, FALSE, validate, routed.cbs, "none")
                           ELSE WebhookReply(body, sig, StatusForError(routed.threw),
                                             StatusForError(routed.threw) = 200, validate,
                                             routed.cbs, routed.threw)
        /\ UNCHANGED << phase, config, accounts, apiClients, hasWebhookHandler,
                        defaultAccountName, connected, lastError, allowlist, events, now,
                        ticks, calls >>

----------------------------------------------------------------------------
(* Outbound side of the message transformer *)

NoContent ==
    [type |-> "text", text |-> UndefStr, filename |-> Undef, caption |-> Undef,
     mediaUrl |-> Undef, mimeType |-> Undef, hasLocation |-> FALSE, hasContact |-> FALSE]

NoMessage ==
    [type |-> Undef, text |-> UndefStr, filename |-> Undef, caption |-> Undef, url |-> Undef,
     templateId |-> Undef, params |-> <<>>]

\* transformOutbound: [threw, error, message]
transformOutbound(content) ==
    LET ok(m) == [error |-> <<>>, message |-> m, threw |-> FALSE]
    IN  CASE content.type = "text" ->
                ok([NoMessage EXCEPT !.type = "text", !.text = Coalesce(content.text, Text(""))])
          [] content.type = "image" ->
                ok([NoMessage EXCEPT !.type = "image", !.url = CoalesceName(content.mediaUrl, ""),
                                     !.caption = content.caption])
          [] content.type = "document" ->
                ok([NoMessage EXCEPT !.type = "file", !.url = CoalesceName(content.mediaUrl, ""),
                                     !.filename = CoalesceName(content.filename, "document")])
          [] content.type = "audio" ->
                ok([NoMessage EXCEPT !.type = "audio", !.url = CoalesceName(content.mediaUrl, "")])
          [] content.type = "video" ->
                ok([NoMessage EXCEPT !.type = "video", !.url = CoalesceName(content.mediaUrl, ""),
                                     !.caption = content.caption])
          [] content.type = "location" ->
                IF ~content.hasLocation
                THEN [error |-> Text("Location content is required for location messages"),
                      message |-> NoMessage,
                      threw |-> TRUE]
                ELSE ok([NoMessage EXCEPT !.type = "location"])
          [] content.type = "sticker" ->
                ok([NoMessage EXCEPT !.type = "image", !.url = CoalesceName(content.mediaUrl, "")])
          [] content.type = "contact" ->
                ok([NoMessage EXCEPT !.type = "text",
                                     !.text = IF content.hasContact THEN Text("Contact: ...")
                                              ELSE Text("Contact shared")])
          [] OTHER ->
                ok([NoMessage EXCEPT !.type = "text",
                                     !.text = Coalesce(content.text, Text("[Unsupported message type]"))])

----------------------------------------------------------------------------
(* The provider's answers to one HTTP POST *)

MsgIds == { "gs-1", "gs-2" }

\* kind "network": request() rejected.  kind "http": a status line arrived; body is
\* "unparseable" when response.body.json() rejects, else the parsed body's status field,
\* with errCode the code of its error object (Undef without one)
Response(kind, status, body, errCode, msgId) ==
    [kind |-> kind, status |-> status, body |-> body, errCode |-> errCode, msgId |-> msgId]

NetworkFailure == Response("network", 0, Undef, Undef, Undef)

HttpStatuses == { 200, 400, 401, 403, 429, 470, 500, 503 }

AllResponses ==
    { NetworkFailure }
    \cup { Response("http", st, "unparseable", Undef, Undef) : st \in HttpStatuses }
    \cup { Response("http", st, "submitted", Undef, id) : st \in HttpStatuses, id \in MsgIds }
    \cup { Response("http", st, "error", code, Undef) :
             st \in HttpStatuses, code \in { Undef, "470", "1002" } }

\* one answer of each kind the channel tells apart
CoreResponses ==
    { NetworkFailure,
      Response("http", 200, "submitted", Undef, "gs-1"),
      Response("http", 200, "submitted", Undef, "gs-2"),
      Response("http", 200, "error", Undef, Undef),
      Response("http", 400, "error", "1002", Undef),
      Response("http", 401, "error", Undef, Undef),
      Response("http", 470, "error", "470", Undef),
      Response("http", 500, "unparseable", Undef, Undef) }

----------------------------------------------------------------------------
(* GupshupApiClient.sendMessage: the retry loop *)

\* createApiError(message, code, statusCode)
createApiError(message, code, statusCode) ==
    [name |-> "GupshupApiError", isSet |-> TRUE, code |-> code, message |-> message,
     statusCode |-> statusCode]

\* what request() or response.body.json() rejects with
NetworkError == [name |-> "Error", isSet |-> TRUE, code |-> "UND_ERR", message |-> Text("fetch failed"),
                 statusCode |-> 0]

JsonSyntaxError == [name |-> "SyntaxError", isSet |-> TRUE, code |-> Undef,
                    message |-> Text("Unexpected token"), statusCode |-> 0]

UnknownSendError == [name |-> "Error", isSet |-> TRUE, code |-> Undef,
                     message |-> Text("Unknown error sending message"), statusCode |-> 0]

\* a retry loop that allows one attempt more
MaxAttempts_oneMore(retry) == IF retry THEN MAX_RETRIES + 1 ELSE 2

MaxAttempts(retry) == IF retry THEN MAX_RETRIES ELSE 1

\* ['AUTH_FAILED', 'SESSION_EXPIRED'] of the catch
NonTransientCodes == { "AUTH_FAILED", "SESSION_EXPIRED" }

\* the backoff that waits the same time before every retry
BackoffDelay_constant(attempt) == RETRY_DELAY_MS

\* this.delay(RETRY_DELAY_MS * attempt)
BackoffDelay(attempt) == RETRY_DELAY_MS * attempt

\* the catch block of the loop: [next, lastErr, delay]
CatchBlock(error, attempt, maxAttempts) ==
    IF error.code \in NonTransientCodes
    THEN [lastErr |-> error, next |-> "throw", delay |-> 0]
    ELSE IF attempt < maxAttempts
    THEN [lastErr |-> error, next |-> "retry", delay |-> BackoffDelay(attempt)]
    ELSE [lastErr |-> error, next |-> "throw", delay |-> 0]

\* one iteration of the loop, from the answer to the POST to the next suspension or the exit:
\* [next ("retry" | "throw" | "return"), lastErr, delay]
AttemptOutcome(resp, attempt, maxAttempts, lastErr) ==
    IF resp.kind = "network" THEN CatchBlock(NetworkError, attempt, maxAttempts)
    ELSE IF resp.body = "unparseable" THEN CatchBlock(JsonSyntaxError, attempt, maxAttempts)
    ELSE IF resp.status = 429
    THEN IF attempt < maxAttempts
         THEN [lastErr |-> lastErr, next |-> "retry", delay |-> BackoffDelay(attempt)]
         ELSE CatchBlock(createApiError(Text("Rate limited"), "RATE_LIMITED", 429),
                         attempt, maxAttempts)
    ELSE IF resp.status = 401 \/ resp.status = 403
    THEN CatchBlock(createApiError(Text("Authentication failed. Check your API key."),
                                   "AUTH_FAILED", resp.status), attempt, maxAttempts)
    ELSE IF resp.status = 470 \/ resp.errCode = "470"
    THEN CatchBlock(createApiError(Text("Session expired. User must message first or use a template."),
                                   "SESSION_EXPIRED", 470), attempt, maxAttempts)
    ELSE IF resp.status >= 500
    THEN IF attempt < maxAttempts
         THEN [lastErr |-> lastErr, next |-> "retry", delay |-> BackoffDelay(attempt)]
         ELSE CatchBlock(createApiError(<< "Server error: ", ToString(resp.status) >>,
                                        "SERVER_ERROR", resp.status), attempt, maxAttempts)
    ELSE IF resp.body = "error" /\ resp.errCode # Undef
    THEN CatchBlock(createApiError(Text("provider error message"), resp.errCode, resp.status),
                    attempt, maxAttempts)
    ELSE [lastErr |-> lastErr, next |-> "return", delay |-> 0]

\* every POST choosing the path anew from the session as it is then
IssuePost_resteered(call) ==
    [call EXCEPT !.pc = "request",
                 !.attempt = @ + 1,
                 !.ffPosts = IF call.message.type = "template" THEN @ ELSE @ + 1,
                 !.tplPosts = IF call.message.type = "template" THEN @ + 1 ELSE @,
                 !.path = IF getSession(call.dest).isActive THEN "freeform" ELSE "template"]

\* request(...): one more HTTP POST of the call's message is on its way
IssuePost(call) ==
    [call EXCEPT !.pc = "request",
                 !.attempt = @ + 1,
                 !.ffPosts = IF call.message.type = "template" THEN @ ELSE @ + 1,
                 !.tplPosts = IF call.message.type = "template" THEN @ + 1 ELSE @]

\* entry of GupshupApiClient.sendMessage: the form is built and the first POST issued
ClientBegin(call, destination, message, retry) ==
    IssuePost([call EXCEPT !.message = message,
                           !.wireDest = clientNormalizePhone(destination),
                           !.retry = retry,
                           !.attempt = 0,
                           !.delays = <<>>,
                           !.lastErr = NoError])

\* the exit of the loop that always throws the generic error
ThrownAtExit_generic(lastErr) == UnknownSendError

\* throw lastError ?? new Error('Unknown error sending message')
ThrownAtExit(lastErr) == IF lastErr.isSet THEN lastErr ELSE UnknownSendError

----------------------------------------------------------------------------
(* GupshupChannel.sendMessage and sendTemplateMessage *)

ErrNotInitialized == Text("Channel not initialized")
ErrNotConnected == Text("Channel not connected")
ErrNoTemplates == Text("Session expired. No templates configured for out-of-session messaging.")
ErrAccountNotFound(name) == << "Account '", name, "' not found" >>

Failure(error) == [error |-> error, success |-> FALSE, messageId |-> Undef]

\* text.substring(0, 1024)
\* text.substring(0, 1024) without the limit
Substring1024_whole(text) == text

Substring1024(text) == SubSeq(text, 1, IF Len(text) < 1024 THEN Len(text) ELSE 1024)

\* the selection preferring the configured default to the envelope's account
SelectedAccountName_defaultFirst(metaAccount) ==
    CoalesceName(config.defaultAccount,
        CoalesceName(metaAccount,
                     IF Len(accounts) > 0 THEN accounts[1].name ELSE Undef))

\* metadata.account ?? config.defaultAccount ?? accounts[0]?.name
SelectedAccountName(metaAccount) ==
    CoalesceName(metaAccount,
        CoalesceName(config.defaultAccount,
                     IF Len(accounts) > 0 THEN accounts[1].name ELSE Undef))

AccountNamed(name) == accounts[CHOOSE i \in 1..Len(accounts) : accounts[i].name = name]

\* sendTemplateMessage up to its first suspension: [call, lastActivity, lastError, probe]
TemplateStart(st) ==
    LET call == st.call
        templates == (AccountNamed(call.accountName)).templates
        template == templates[1]
        text == Coalesce(call.content.text, Text("[Message]"))
        params == IF template.paramCount # 0 THEN << Substring1024(text) >> ELSE <<>>
        message == [type |-> "template", text |-> UndefStr, filename |-> Undef, caption |-> Undef,
                    url |-> Undef, templateId |-> template.id, params |-> params]
    IN  IF Len(templates) = 0
        THEN [st EXCEPT !.call = [call EXCEPT !.pc = "done", !.path = "template",
                                              !.result = Failure(ErrNoTemplates)]]
        ELSE [st EXCEPT !.call = ClientBegin([call EXCEPT !.path = "template"],
                                             call.dest, message, TRUE)]

\* the branch of sendMessage on the session status, with the test inverted away: always free-form
SessionAllowsFreeForm_always(destination) == TRUE

\* session.isActive of sendMessage
SessionAllowsFreeForm(destination) == getSession(destination).isActive

\* sendMessage from its entry to its first suspension or its return
SendStart(call, env) ==
    LET st0 == [lastActivity |-> lastActivity, lastError |-> lastError, probe |-> probe,
                call |-> [call EXCEPT !.layer = "channel", !.dest = env.dest,
                                      !.account = env.account, !.content = env.content]]
        done(result) == [st0 EXCEPT !.call = [st0.call EXCEPT !.pc = "done", !.result = result]]
        accountName == SelectedAccountName(env.account)
        lookup == IF accountName = Undef THEN "default" ELSE accountName
        st1 == [st0 EXCEPT !.call = [st0.call EXCEPT !.accountName = accountName]]
        wire == transformOutbound(env.content)
    IN  IF config = NoConfig \/ apiClients = {} THEN done(Failure(ErrNotInitialized))
        ELSE IF ~connected THEN done(Failure(ErrNotConnected))
        ELSE IF lookup \notin apiClients \/ accountName \notin AccountNames(accounts)
        THEN done(Failure(ErrAccountNotFound(accountName)))
        ELSE IF ~SessionAllowsFreeForm(env.dest) THEN TemplateStart(st1)
        ELSE IF wire.threw
        THEN [st1 EXCEPT !.call = [st1.call EXCEPT !.pc = "done", !.path = "freeform",
                                                   !.result = Failure(wire.error)],
                         !.lastError = wire.error,
                         !.probe = markUnhealthy(probe, accountName, wire.error)]
        ELSE [st1 EXCEPT !.call = ClientBegin([st1.call EXCEPT !.path = "freeform"],
                                              env.dest, wire.message, TRUE)]

\* the error code that sends sendMessage's catch to the template path, mistaken for another
FallbackCode_none == "NO_SUCH_CODE"

\* 'SESSION_EXPIRED' of sendMessage's catch
FallbackCode == "SESSION_EXPIRED"

\* the result built from the body the client returned
ResultOf(resp) ==
    [error |-> <<>>, success |-> resp.body = "submitted", messageId |-> resp.msgId]

\* the catch of sendTemplateMessage letting the client's error escape
TemplateFailure_rethrow(call, err) ==
    [call EXCEPT !.pc = "done", !.lastErr = err, !.threw = TRUE]

\* the catch of sendTemplateMessage: a failure result carrying the error's message
TemplateFailure(call, err) ==
    [call EXCEPT !.pc = "done", !.lastErr = err,
                 !.result = Failure(Text("Template send failed: ") \o err.message)]

\* sendMessage / sendTemplateMessage resumed when the client returns resp or throws err
ChannelResume(call, outcome, resp) ==
    LET st0 == [lastActivity |-> lastActivity, lastError |-> lastError, probe |-> probe,
                call |-> call]
        err == ThrownAtExit(outcome.lastErr)
    IN  IF outcome.next = "return"
        THEN [st0 EXCEPT !.call = [call EXCEPT !.pc = "done", !.result = ResultOf(resp)],
                         !.lastActivity = now,
                         !.probe = updateActivity(probe, call.accountName)]
        ELSE IF call.path = "template"
        THEN [st0 EXCEPT !.call = TemplateFailure(call, err),
                         !.probe = markUnhealthy(probe, call.accountName, err.message)]
        ELSE LET st1 == [st0 EXCEPT !.call = [call EXCEPT !.lastErr = err],
                                    !.lastError = err.message,
                                    !.probe = markUnhealthy(probe, call.accountName, err.message)]
             IN  IF err.code = FallbackCode
                 THEN TemplateStart([st1 EXCEPT !.call = [st1.call EXCEPT !.caughtSessionExpired = TRUE]])
                 ELSE [st1 EXCEPT !.call = [st1.call EXCEPT !.pc = "done",
                                                            !.result = Failure(err.message)]]

\* the envelopes handed to sendMessage
TextContent == [NoContent EXCEPT !.text = Text("hi")]
LocationNoCoords == [NoContent EXCEPT !.type = "location", !.text = UndefStr]

Envelope(dest, account, content) == [account |-> account, dest |-> dest, content |-> content]

Envelopes ==
    { Envelope(P15plus, Undef, TextContent),
      Envelope(P19, Undef, TextContent),
      Envelope(P15, "alt", TextContent),
      Envelope(P15paren, Undef, LocationNoCoords),
      Envelope(P15, "ghost", TextContent) }

\* sendMessage opening a session for the recipient as it starts
SendMessage_opensSession(c, env) ==
    LET st == SendStart(calls[c], env)
    IN  /\ calls[c].pc = "idle"
        /\ calls' = [calls EXCEPT ![c] = st.call]
        /\ lastActivity' = st.lastActivity
        /\ lastError' = st.lastError
        /\ probe' = st.probe
        /\ sessions' = SessionsAfterUpdate(env.dest)
        /\ last' = [op |-> "sendMessage", call |-> c]
        /\ UNCHANGED << phase, config, accounts, apiClients, hasWebhookHandler,
                        defaultAccountName, connected, allowlist, events, now, ticks,
                        inboundAt >>

\* sendMessage waiting until no other call has a send under way
SendMessage_serialized(c, env) ==
    LET st == SendStart(calls[c], env)
    IN  /\ calls[c].pc = "idle"
        /\ \A d \in CallIds \ { c } : calls[d].pc \in { "idle", "done" }
        /\ calls' = [calls EXCEPT ![c] = st.call]
        /\ lastActivity' = st.lastActivity
        /\ lastError' = st.lastError
        /\ probe' = st.probe
        /\ last' = [op |-> "sendMessage", call |-> c]
        /\ UNCHANGED << phase, config, accounts, apiClients, hasWebhookHandler,
                        defaultAccountName, connected, sessions, allowlist, events, now, ticks,
                        inboundAt >>

\* GupshupChannel.sendMessage(envelope), called as call c
SendMessage(c, env) ==
    LET st == SendStart(calls[c], env)
    IN  /\ calls[c].pc = "idle"
        /\ calls' = [calls EXCEPT ![c] = st.call]
        /\ lastActivity' = st.lastActivity
        /\ lastError' = st.lastError
        /\ probe' = st.probe
        /\ last' = [op |-> "sendMessage", call |-> c]
        /\ UNCHANGED << phase, config, accounts, apiClients, hasWebhookHandler,
                        defaultAccountName, connected, sessions, allowlist, events, now, ticks,
                        inboundAt >>

\* GupshupApiClient.sendMessage(destination, message, {retry}) called directly, as call c
ClientSend(c, dest, retry) ==
    /\ calls[c].pc = "idle"
    /\ calls' = [calls EXCEPT ![c] =
                    ClientBegin([calls[c] EXCEPT !.layer = "client", !.dest = dest, !.path = "client"],
                                dest, [NoMessage EXCEPT !.type = "text", !.text = Text("hi")], retry)]
    /\ last' = [op |-> "clientSend", call |-> c]
    /\ UNCHANGED << phase, config, accounts, apiClients, hasWebhookHandler, defaultAccountName,
                    connected, lastActivity, lastError, sessions, allowlist, probe, events, now,
                    ticks, inboundAt >>

\* the answer to the POST in flight of call c arrives
HttpResponse(c, resp) ==
    LET call == [calls[c] EXCEPT !.resp = resp]
        outcome == AttemptOutcome(resp, call.attempt, MaxAttempts(call.retry), call.lastErr)
        resumed == ChannelResume(call, outcome, resp)
    IN  /\ calls[c].pc = "request"
        /\ last' = [op |-> "httpResponse", call |-> c]
        /\ IF outcome.next = "retry"
           THEN /\ calls' = [calls EXCEPT ![c] =
                                [call EXCEPT !.pc = "backoff", !.lastErr = outcome.lastErr,
                                             !.delays = Append(@, outcome.delay)]]
                /\ UNCHANGED << lastActivity, lastError, probe >>
           ELSE IF call.layer = "client"
           THEN /\ calls' = [calls EXCEPT ![c] =
                                [call EXCEPT !.pc = "done",
                                             !.threw = (outcome.next = "throw"),
                                             !.lastErr = IF outcome.next = "throw"
                                                         THEN ThrownAtExit(outcome.lastErr)
                                                         ELSE outcome.lastErr]]
                /\ UNCHANGED << lastActivity, lastError, probe >>
           ELSE /\ calls' = [calls EXCEPT ![c] = resumed.call]
                /\ lastActivity' = resumed.lastActivity
                /\ lastError' = resumed.lastError
                /\ probe' = resumed.probe
        /\ UNCHANGED << phase, config, accounts, apiClients, hasWebhookHandler,
                        defaultAccountName, connected, sessions, allowlist, events, now, ticks,
                        inboundAt >>

\* the delay of call c is over: the loop continues with the next attempt
BackoffElapsed(c) ==
    /\ calls[c].pc = "backoff"
    /\ calls' = [calls EXCEPT ![c] = IssuePost(calls[c])]
    /\ last' = [op |-> "backoffElapsed", call |-> c]
    /\ UNCHANGED << phase, config, accounts, apiClients, hasWebhookHandler, defaultAccountName,
                    connected, lastActivity, lastError, sessions, allowlist, probe, events, now,
                    ticks, inboundAt >>

----------------------------------------------------------------------------
(* Specifications *)

Next ==
    \/ \E cfg \in Configs : Initialize(cfg)
    \/ Start
    \/ Stop
    \/ \E d \in TickSteps : Tick(d)
    \/ \E p \in RawPhones : AddToAllowlist(p)
    \/ \E p \in RawPhones : RemoveFromAllowlist(p)
    \/ ClearExpiredSessions
    \/ \E p \in RawPhones : IsSessionActive(p)
    \/ \E checkApi \in BOOLEAN : \E a \in HealthAnswers : CheckHealth(checkApi, a)
    \/ \E b \in WebhookBodies : \E sg \in SignaturesFor(b) : \E o \in CallbackOutcomes :
          HandleWebhook(b, sg, o)
    \/ \E c \in CallIds : \E e \in Envelopes : SendMessage(c, e)
    \/ \E c \in CallIds : \E p \in RawPhones : \E retry \in BOOLEAN : ClientSend(c, p, retry)
    \/ \E c \in CallIds : \E r \in AllResponses : HttpResponse(c, r)
    \/ \E c \in CallIds : BackoffElapsed(c)
    \/ HealthRoute

Spec == Init /\ [][Next]_vars

\* access control and session tracking: inbound messages, allowlist edits, the clock, purges
NextAccess ==
    \/ \E cfg \in Configs : Initialize(cfg)
    \/ \E d \in TickSteps : Tick(d)
    \/ \E p \in { P15plus, P19 } : AddToAllowlist(p)
    \/ \E p \in { P15paren, P19 } : RemoveFromAllowlist(p)
    \/ ClearExpiredSessions
    \/ \E b \in MessageBodies : \E o \in { "ok", "throwSyntaxError" } : HandleWebhook(b, NoSig, o)

SpecAccess == Init /\ [][NextAccess]_vars

\* the configurations that differ in accounts and templates
SendConfigs == { CfgOpen, CfgAllowlist, CfgPairing, CfgOpenMulti }

InitSend == Init /\ events = AllEvents

\* one sendMessage call against a session built by inbound messages
NextSend ==
    \/ \E cfg \in SendConfigs : Initialize(cfg)
    \/ Start
    \/ \E d \in TickSteps : Tick(d)
    \/ HandleWebhook(MessageBody(P15, "text"), NoSig, "ok")
    \/ \E e \in Envelopes : SendMessage("A", e)
    \/ \E r \in CoreResponses : HttpResponse("A", r)
    \/ BackoffElapsed("A")

SpecSend == InitSend /\ [][NextSend]_vars

\* the API client alone: one send, every answer the provider can give
NextClient ==
    \/ \E p \in RawPhones : \E retry \in BOOLEAN : ClientSend("A", p, retry)
    \/ \E r \in AllResponses : HttpResponse("A", r)
    \/ BackoffElapsed("A")

SpecClient == InitSend /\ [][NextClient]_vars

WebhookConfigs == { CfgOpen, CfgAllowlist }

\* webhooks of every kind and signature, before and after initialize, with callbacks that
\* return or throw
NextWebhook ==
    \/ \E cfg \in WebhookConfigs : Initialize(cfg)
    \/ \E b \in WebhookBodies : \E sg \in SignaturesFor(b) : \E o \in CallbackOutcomes :
           HandleWebhook(b, sg, o)

SpecWebhook == Init /\ [][NextWebhook]_vars

EntryBodies == { MessageBody(P15, "text"), BodyNull, BodyNoSender, BodyGarbage, BodyDelivered }

\* the two public entry points together: webhooks whose routing or callbacks fail, and sends
\* whose transformer, client or template fallback fail
NextEntry ==
    \/ \E cfg \in WebhookConfigs : Initialize(cfg)
    \/ Start
    \/ \E b \in EntryBodies : \E o \in CallbackOutcomes : HandleWebhook(b, NoSig, o)
    \/ \E e \in Envelopes : SendMessage("A", e)
    \/ \E r \in CoreResponses : HttpResponse("A", r)
    \/ BackoffElapsed("A")

SpecEntry == InitSend /\ [][NextEntry]_vars

\* the life of a conversation: inbound messages whose handler returns or fails, the clock,
\* purges and status queries
NextSessions ==
    \/ \E cfg \in WebhookConfigs : Initialize(cfg)
    \/ \E d \in TickSteps : Tick(d)
    \/ \E b \in MessageBodies : \E o \in { "ok", "throwError" } : HandleWebhook(b, NoSig, o)
    \/ ClearExpiredSessions
    \/ \E p \in { P15paren, P19 } : IsSessionActive(p)

SpecSessions == InitSend /\ [][NextSessions]_vars

FrameBodies == { MessageBody(P15, "text"), MessageBody(P19, "text"), BodyDelivered, BodyOptedIn }

\* a failure of the request, an acceptance and a session-expired rejection
FrameResponses ==
    { NetworkFailure,
      Response("http", 200, "submitted", Undef, "gs-1"),
      Response("http", 470, "error", "470", Undef) }

\* everything that runs beside the session tracker: sends on every path, webhooks of every
\* type, allowlist edits, health checks, start and stop, the clock and purges
NextFrame ==
    \/ Initialize(CfgAllowlist)
    \/ Start
    \/ Stop
    \/ Tick(SESSION_WINDOW_MS)
    \/ AddToAllowlist(P15plus)
    \/ RemoveFromAllowlist(P15paren)
    \/ ClearExpiredSessions
    \/ \E b \in FrameBodies : HandleWebhook(b, NoSig, "ok")
    \/ SendMessage("A", Envelope(P15plus, Undef, TextContent))
    \/ \E r \in FrameResponses : HttpResponse("A", r)
    \/ BackoffElapsed("A")
    \/ \E checkApi \in BOOLEAN : CheckHealth(checkApi, "unauthorized")

SpecFrame == InitSend /\ [][NextFrame]_vars

\* single account whose first template takes no parameter
CfgNotifyFirst == [BaseConfig EXCEPT !.templates = << T2, T1 >>]

TemplateConfigs == { CfgAllowlist, CfgNotifyFirst, CfgOpenMulti }

\* a text of 1030 characters
LongText == [i \in 1..1030 |-> "x"]

\* envelopes with a short text, a text longer than the limit, and no text at all
TemplateEnvelopes ==
    { Envelope(P15plus, Undef, [NoContent EXCEPT !.text = << "h", "i" >>]),
      Envelope(P15plus, Undef, [NoContent EXCEPT !.text = LongText]),
      Envelope(P15plus, Undef, [NoContent EXCEPT !.type = "image", !.mediaUrl = "u"]) }

\* one send that takes the template path, from the start or after a session-expired rejection
NextTemplate ==
    \/ \E cfg \in TemplateConfigs : Initialize(cfg)
    \/ Start
    \/ HandleWebhook(MessageBody(P15, "text"), NoSig, "ok")
    \/ \E e \in TemplateEnvelopes : SendMessage("A", e)
    \/ \E r \in FrameResponses : HttpResponse("A", r)
    \/ BackoffElapsed("A")

SpecTemplate == InitSend /\ [][NextTemplate]_vars

\* two sendMessage calls to one destination, each with its own requests and answers
NextTwoSends ==
    \/ Initialize(CfgAllowlist)
    \/ Start
    \/ HandleWebhook(MessageBody(P15, "text"), NoSig, "ok")
    \/ \E c \in CallIds : SendMessage(c, Envelope(P15plus, Undef, TextContent))
    \/ \E c \in CallIds : \E r \in FrameResponses : HttpResponse(c, r)
    \/ \E c \in CallIds : BackoffElapsed(c)

SpecTwoSends == InitSend /\ [][NextTwoSends]_vars

ContentTypes ==
    { "text", "image", "document", "audio", "video", "location", "sticker", "contact", "poll" }

\* no text, the empty text, a word, a text with blanks around it
TransformTexts == { UndefStr, <<>>, << "h", "i" >>, << " ", "a", " " >> }

\* envelope contents of every type, with and without text, location and contact
TransformContents ==
    { [NoContent EXCEPT !.type = t, !.text = x, !.hasLocation = l, !.hasContact = c] :
        t \in ContentTypes, x \in TransformTexts, l \in BOOLEAN, c \in BOOLEAN }

\* message payloads of every type, one the transformer has no case for included, with and
\* without the sender, the content object and the contact's name
TransformBodies ==
    { BodyRecord(<< "message", t >>, "object", "message", t, P15plus, "in1", s,
                 [NoPayload EXCEPT !.text = x, !.hasName = n, !.isObject = o]) :
        t \in InboundTypes \cup { "reaction" }, s \in BOOLEAN,
        x \in TransformTexts \ { UndefStr }, n \in BOOLEAN, o \in BOOLEAN }

\* written forms of the number 15 with a plus sign inside, and doubled in front
P15inner == << "1", "+", "5" >>
P15doubled == << "+", "+", "1", "5" >>

NormPhones == RawPhones \cup { P15inner, P15doubled }

TransformEnvelopes ==
    { Envelope(d, Undef, c) :
        d \in { P15plus, P15inner, P15doubled, P19 },
        c \in { TextContent, LocationNoCoords,
                [NoContent EXCEPT !.type = "contact", !.hasContact = TRUE],
                [NoContent EXCEPT !.type = "poll"] } }

\* transformOutbound applied to a content; the function reads no state, so it is applied
\* on the channel as constructed
TransformOutbound(content) ==
    /\ phase = "constructed"
    /\ last' = [content |-> content, op |-> "transformOutbound", out |-> transformOutbound(content)]
    /\ UNCHANGED << phase, config, accounts, apiClients, hasWebhookHandler, defaultAccountName,
                    connected, lastActivity, lastError, sessions, allowlist, probe, events, now,
                    ticks, inboundAt, calls >>

\* transformInbound applied to a message payload, on the channel as constructed
TransformInbound(body) ==
    /\ phase = "constructed"
    /\ last' = [body |-> body, op |-> "transformInbound", out |-> transformInbound(body, SourcePhone)]
    /\ UNCHANGED << phase, config, accounts, apiClients, hasWebhookHandler, defaultAccountName,
                    connected, lastActivity, lastError, sessions, allowlist, probe, events, now,
                    ticks, inboundAt, calls >>

\* the normalizations of the channel, the transformer and the API client applied to a
\* phone, on the channel as constructed
NormalizePhone(phone) ==
    /\ phase = "constructed"
    /\ last' = [phone |-> phone, op |-> "normalizePhone", channel |-> normalizePhone(phone),
                client |-> clientNormalizePhone(phone),
                transformer |-> transformerNormalizePhone(phone)]
    /\ UNCHANGED << phase, config, accounts, apiClients, hasWebhookHandler, defaultAccountName,
                    connected, lastActivity, lastError, sessions, allowlist, probe, events, now,
                    ticks, inboundAt, calls >>

\* the transformers and normalizations on their own and inside a webhook and a send
NextTransform ==
    \/ Initialize(CfgNotifyFirst)
    \/ Start
    \/ HandleWebhook(MessageBody(P15, "text"), NoSig, "ok")
    \/ \E c \in TransformContents : TransformOutbound(c)
    \/ \E b \in TransformBodies : TransformInbound(b)
    \/ \E p \in NormPhones : NormalizePhone(p)
    \/ \E e \in TransformEnvelopes : SendMessage("A", e)
    \/ HttpResponse("A", Response("http", 200, "submitted", Undef, "gs-1"))

SpecTransform == InitSend /\ [][NextTransform]_vars

\* initialize with every configuration of credentials, then start
NextResolve ==
    \/ \E cfg \in ResolveConfigs : Initialize(cfg)
    \/ Start

SpecResolve == InitSend /\ [][NextResolve]_vars

----------------------------------------------------------------------------
(* Properties of the outbound path (checked under SpecSend) *)

\* a phone number with the punctuation of its written forms removed
KeyOf(phone) == SelectSeq(phone, LAMBDA c : c \notin {"+", " ", "-", "(", ")"})

Hours24 == 24 * 3600 * 1000

\* a permitted inbound message from the number was recorded less than 24 hours ago
InboundWithin24h(phone) ==
    /\ KeyOf(phone) \in DOMAIN inboundAt
    /\ now - inboundAt[KeyOf(phone)] < Hours24

\* this step is sendMessage on an initialized, started channel with a resolvable account
SendAccepted ==
    /\ last'.op = "sendMessage"
    /\ phase = "initialized"
    /\ connected
    /\ SelectedAccountName(calls'["A"].account) \in AccountNames(accounts)

\* the content is one the wire transformer rejects
Untransformable(content) == content.type = "location" /\ ~content.hasLocation

\* the free-form POST counter moves only at the call itself or on the free-form path
FreeFormOnlyOnFreeFormPath ==
    calls'["A"].ffPosts # calls["A"].ffPosts
        => \/ last'.op = "sendMessage"
           \/ calls["A"].path = "freeform" /\ calls'["A"].path = "freeform"

\* C1 as stated: a free-form request is issued if and only if a permitted inbound from the
\* normalized destination was recorded less than 24h before the call; otherwise none is issued
\* and the template path is taken
C1_Original ==
    [][ /\ SendAccepted =>
              /\ calls'["A"].ffPosts = 1 <=> InboundWithin24h(calls'["A"].dest)
              /\ ~InboundWithin24h(calls'["A"].dest) =>
                    calls'["A"].path = "template" /\ calls'["A"].ffPosts = 0
        /\ FreeFormOnlyOnFreeFormPath ]_vars

\* C1 amended: a free-form request is issued if and only if the session of the normalized
\* destination is active at the time of the call and the content is not a location without
\* coordinates (which the transformer rejects before any request); with the session absent or
\* expired no free-form request is issued and the template path is taken, and with it active
\* the template path is not entered by the call itself
C1_FreeFormIffActiveAndTransformable ==
    [][ /\ SendAccepted =>
              /\ calls'["A"].ffPosts = 1
                    <=> /\ InboundWithin24h(calls'["A"].dest)
                        /\ ~Untransformable(calls'["A"].content)
              /\ ~InboundWithin24h(calls'["A"].dest) =>
                    calls'["A"].path = "template" /\ calls'["A"].ffPosts = 0
              /\ InboundWithin24h(calls'["A"].dest) =>
                    calls'["A"].path = "freeform" /\ calls'["A"].tplPosts = 0
        /\ FreeFormOnlyOnFreeFormPath ]_vars

\* sendMessage has just issued a free-form request to a destination whose session is active
C1_Witness ==
    /\ last.op = "sendMessage"
    /\ calls["A"].pc = "request"
    /\ calls["A"].path = "freeform"
    /\ calls["A"].ffPosts = 1
    /\ InboundWithin24h(calls["A"].dest)

\* the provider's answer makes the client throw its session-expired error
SessionExpiredAnswer(r) ==
    /\ r.kind = "http"
    /\ r.body # "unparseable"
    /\ r.status \notin {429, 401, 403}
    /\ r.status = 470 \/ r.errCode = "470"

\* the provider accepted the message
Delivered(r) == r.kind = "http" /\ r.status = 200 /\ r.body = "submitted"

\* C2: when the free-form send of a call throws session-expired, the same call goes on to the
\* template path (its first template POST is issued, or it ends at once when the account has
\* no template), and when the template send then succeeds the call returns success:true with
\* the template send's message id and no error
C2_SessionExpiredFallsBackToTemplate ==
    [][ (last'.op = "httpResponse" /\ calls["A"].layer = "channel") =>
            /\ (calls["A"].path = "freeform" /\ SessionExpiredAnswer(calls'["A"].resp)) =>
                  /\ calls'["A"].path = "template"
                  /\ calls'["A"].ffPosts = calls["A"].ffPosts
                  /\ IF Len(AccountNamed(calls["A"].accountName).templates) = 0
                     THEN calls'["A"].pc = "done" /\ ~calls'["A"].result.success
                     ELSE calls'["A"].pc = "request" /\ calls'["A"].tplPosts = 1
            /\ (calls["A"].path = "template" /\ calls["A"].ffPosts > 0
                    /\ Delivered(calls'["A"].resp)) =>
                  /\ calls'["A"].pc = "done"
                  /\ calls'["A"].result =
                        [error |-> <<>>, success |-> TRUE, messageId |-> calls'["A"].resp.msgId] ]_vars

\* a call whose free-form attempt was rejected as session-expired has returned success with
\* the message id of its template send
C2_Witness ==
    /\ calls["A"].pc = "done"
    /\ calls["A"].caughtSessionExpired
    /\ calls["A"].ffPosts = 1
    /\ calls["A"].tplPosts = 1
    /\ calls["A"].result.success
    /\ calls["A"].result.messageId = "gs-2"

NoTemplatesMessage ==
    Text("Session expired. No templates configured for out-of-session messaging.")

\* C3: sendMessage to a destination without a session, or with an expired one, on an account
\* with zero templates returns the failure "Session expired. No templates configured for
\* out-of-session messaging." and makes no HTTP request, then or later
C3_NoSessionNoTemplates ==
    [][ /\ ( /\ SendAccepted
             /\ ~InboundWithin24h(calls'["A"].dest)
             /\ Len(AccountNamed(SelectedAccountName(calls'["A"].account)).templates) = 0 ) =>
              /\ calls'["A"].pc = "done"
              /\ calls'["A"].result =
                    [error |-> NoTemplatesMessage, success |-> FALSE, messageId |-> Undef]
              /\ calls'["A"].ffPosts = 0
              /\ calls'["A"].tplPosts = 0
        /\ calls["A"].pc = "done" => calls'["A"] = calls["A"] ]_vars

\* sendMessage to a destination whose session has expired, on an account without templates,
\* has returned the failure without a request
C3_Witness ==
    /\ last.op = "sendMessage"
    /\ calls["A"].pc = "done"
    /\ calls["A"].result.error = NoTemplatesMessage
    /\ KeyOf(calls["A"].dest) \in DOMAIN inboundAt
    /\ now - inboundAt[KeyOf(calls["A"].dest)] >= Hours24
    /\ calls["A"].ffPosts + calls["A"].tplPosts = 0

----------------------------------------------------------------------------
(* Properties of access control and session tracking (checked under SpecAccess) *)

\* this step is an inbound message whose sender the access check denies, on a channel whose
\* caller registered onAccessDenied
DeniedInbound ==
    /\ last'.op = "handleWebhook"
    /\ hasWebhookHandler
    /\ last'.body.type = "message"
    /\ last'.body.senderOk
    /\ ~checkAccess(last'.body.phone)
    /\ "onAccessDenied" \in events

\* C4 as stated: a denied inbound message leaves the session map unchanged, does not invoke
\* onMessage, invokes onAccessDenied exactly once with the sender phone and the current
\* policy, and is acknowledged with status 200
C4_Original ==
    [][ DeniedInbound =>
            /\ sessions' = sessions
            /\ \A i \in 1..Len(last'.cbs) : last'.cbs[i].cb # "onMessage"
            /\ last'.cbs = << Invocation("onAccessDenied", KeyOf(last'.body.phone),
                                         PolicyOf(config), Undef) >>
            /\ last'.status = 200 ]_vars

\* what the access check returns for a phone, as the policy table of the channel reads
ExpectedAccess(phone) ==
    IF config = NoConfig \/ config.dmPolicy = Undef THEN TRUE
    ELSE CASE config.dmPolicy = "open" -> TRUE
           [] config.dmPolicy = "allowlist" -> KeyOf(phone) \in allowlist
           [] config.dmPolicy = "pairing" ->
                 KeyOf(phone) \in allowlist \/ KeyOf(phone) \in DOMAIN sessions
           [] OTHER -> TRUE

KeysOf(phones) == { KeyOf(phones[i]) : i \in 1..Len(phones) }

\* the allowlist changes by its operations only: initialize adds allowFrom, add adds one
\* number, remove removes one
AllowlistStep ==
    CASE last'.op = "addToAllowlist" -> allowlist' = allowlist \cup { KeyOf(last'.phone) }
      [] last'.op = "removeFromAllowlist" -> allowlist' = allowlist \ { KeyOf(last'.phone) }
      [] last'.op = "initialize" /\ ~last'.threw ->
            allowlist' = allowlist \cup KeysOf(config'.allowFrom)
      [] OTHER -> allowlist' = allowlist

\* C5: checkAccess on the current state is true under 'open', allowlist membership of the
\* normalized phone under 'allowlist', membership or an existing session entry under
\* 'pairing', and true for an unset or unrecognized policy; the allowlist it consults is the
\* initial allowFrom plus the adds minus the removes, each visible to the next check
C5_AccessPolicy ==
    /\ [](\A p \in RawPhones : checkAccess(p) = ExpectedAccess(p))
    /\ [][AllowlistStep]_vars

\* under 'pairing' a number just removed from the allowlist still passes through its session
C5_Witness ==
    /\ last.op = "removeFromAllowlist"
    /\ config # NoConfig
    /\ config.dmPolicy = "pairing"
    /\ KeyOf(last.phone) \notin allowlist
    /\ KeyOf(last.phone) \in DOMAIN sessions
    /\ checkAccess(last.phone)

\* this step is an inbound message whose sender the access check permits
PermittedInbound ==
    /\ last'.op = "handleWebhook"
    /\ hasWebhookHandler
    /\ last'.body.type = "message"
    /\ last'.body.senderOk
    /\ checkAccess(last'.body.phone)

\* C6: two written forms of one number (differing only in '+', spaces, dashes, parentheses)
\* get the same answer from checkAccess and the session status query, change the allowlist
\* and the session map in the same way, and an inbound message from any form is recorded
\* under the key the other forms look up
C6_RepresentationInvariance ==
    /\ [](\A p, q \in RawPhones :
            KeyOf(p) = KeyOf(q) =>
                /\ checkAccess(p) = checkAccess(q)
                /\ AllowlistAfterAdd(p) = AllowlistAfterAdd(q)
                /\ AllowlistAfterRemove(p) = AllowlistAfterRemove(q)
                /\ KeyOf(q) \in AllowlistAfterAdd(p)
                /\ KeyOf(q) \notin AllowlistAfterRemove(p)
                /\ SessionsAfterUpdate(p) = SessionsAfterUpdate(q)
                /\ getSession(p) = getSession(q)
                /\ isSessionActive(p) = isSessionActive(q))
    /\ [][PermittedInbound =>
            \A q \in RawPhones :
                KeyOf(q) = KeyOf(last'.body.phone) =>
                    /\ KeyOf(q) \in DOMAIN sessions'
                    /\ sessions'[KeyOf(q)].lastMessageAt = now']_vars

\* allowFrom ["15"] under 'allowlist' has permitted an inbound message from "(1)-5", whose
\* session the form "+1 5" finds active, while another number is denied
C6_Witness ==
    /\ last.op = "handleWebhook"
    /\ last.body.phone = P15paren
    /\ config # NoConfig
    /\ config.dmPolicy = "allowlist"
    /\ allowlist = { P15 }
    /\ P15 \in DOMAIN sessions
    /\ isSessionActive(P15plus)
    /\ checkAccess(P15plus)
    /\ ~checkAccess(P19)

\* C7: freshness is a strict comparison: a number whose last permitted inbound is 24h old or
\* older is reported expired and a purge removes its entry; one whose last permitted inbound
\* is less than 24h old (24h minus 1 ms included) is reported active and a purge keeps its
\* entry as it is
C7_StrictWindow ==
    /\ [](\A k \in DOMAIN inboundAt :
            IF now - inboundAt[k] >= Hours24
            THEN /\ ~isSessionActive(k)
                 /\ ~getSession(k).isActive
                 /\ k \notin DOMAIN SessionsAfterClear
            ELSE /\ isSessionActive(k)
                 /\ getSession(k).lastMessageAt = inboundAt[k]
                 /\ k \in DOMAIN SessionsAfterClear
                 /\ SessionsAfterClear[k] = sessions[k])
    /\ [][last'.op = "clearExpiredSessions" =>
            DOMAIN sessions' = { k \in DOMAIN inboundAt : now - inboundAt[k] < Hours24 }]_vars

\* one session is exactly 24h old and still stored, another is 24h minus 1 ms old
C7_Witness ==
    /\ \E k \in DOMAIN sessions : now - sessions[k].lastMessageAt = Hours24
    /\ \E k \in DOMAIN sessions : now - sessions[k].lastMessageAt = Hours24 - 1

----------------------------------------------------------------------------
(* Properties of the API client's retry loop (checked under SpecClient) *)

\* the answer is one the retry policy names: rate limited, server error, or a failure of the
\* transport (the request, or the reading of the body, did not complete)
RetryableAnswer(r) ==
    \/ r.kind = "network"
    \/ r.body = "unparseable"
    \/ r.status = 429
    \/ r.status >= 500

\* the answer to the POST of this step's call has just arrived
AnswerArrived == last'.op = "httpResponse" /\ calls["A"].pc = "request"

\* the send ends in this step by throwing an error with the given code, without a new POST
ThrowsNow(code) ==
    /\ calls'["A"].pc = "done"
    /\ calls'["A"].threw
    /\ calls'["A"].lastErr.code = code
    /\ calls'["A"].ffPosts = calls["A"].ffPosts

\* C8 as stated: one send makes at most 3 POSTs with retry enabled and exactly 1 with retry
\* disabled, and a further attempt follows only an attempt that ended in HTTP 429, HTTP >= 500
\* or a network or timeout failure
C8_Original ==
    [][ /\ calls'["A"].ffPosts <= MAX_RETRIES
        /\ ~calls'["A"].retry => calls'["A"].ffPosts <= 1
        /\ calls'["A"].pc = "done" => calls'["A"].ffPosts >= 1
        /\ last'.op = "backoffElapsed" => RetryableAnswer(calls["A"].resp) ]_vars

\* C9 as stated: an attempt answered with HTTP 401 or 403 ends the send with the
\* authentication error, and one answered with HTTP 470 or with a body whose error code is
\* "470" ends it with the session-expired error, without another attempt, on every attempt
\* and with retry on or off
C9_Original ==
    [][ AnswerArrived =>
            /\ calls'["A"].resp.status \in {401, 403} => ThrowsNow("AUTH_FAILED")
            /\ ( \/ calls'["A"].resp.status = 470
                 \/ /\ calls'["A"].resp.errCode = "470"
                    /\ calls'["A"].resp.status \notin {401, 403, 429} ) =>
                  ThrowsNow("SESSION_EXPIRED") ]_vars

\* the answer carries a provider-reported application error on a status the loop gives no
\* other meaning
ApplicationError(r) ==
    /\ r.kind = "http"
    /\ r.body = "error"
    /\ r.errCode \notin {Undef, "470"}
    /\ r.status \notin {429, 401, 403, 470}
    /\ r.status < 500

\* C10 as stated: a provider-reported application error is not retried: the send ends at
\* once with an API error carrying the provider's code, and no further POST is made
C10_Original ==
    [][ (AnswerArrived /\ ApplicationError(calls'["A"].resp)) =>
            ThrowsNow(calls'["A"].resp.errCode) ]_vars

RECURSIVE SumSeq(_)
SumSeq(q) == IF q = <<>> THEN 0 ELSE Head(q) + SumSeq(Tail(q))

ExhaustedNow ==
    /\ AnswerArrived
    /\ calls["A"].attempt = MaxAttempts(calls["A"].retry)
    /\ calls'["A"].pc = "done"
    /\ calls'["A"].threw

\* C12: when the attempts are exhausted the error thrown is the final attempt's: the network
\* failure of that attempt, the rate-limited error if it was answered 429, the server error
\* with its status if it was answered >= 500; the generic 'Unknown error sending message' is
\* never thrown while an error was captured
C12_LastErrorThrown ==
    /\ [][ ExhaustedNow =>
             /\ calls'["A"].resp.kind = "network" => calls'["A"].lastErr = NetworkError
             /\ ( /\ calls'["A"].resp.kind = "http"
                  /\ calls'["A"].resp.body # "unparseable"
                  /\ calls'["A"].resp.status = 429 ) =>
                   /\ calls'["A"].lastErr.code = "RATE_LIMITED"
                   /\ calls'["A"].lastErr.statusCode = 429
             /\ ( /\ calls'["A"].resp.kind = "http"
                  /\ calls'["A"].resp.body # "unparseable"
                  /\ calls'["A"].resp.status >= 500
                  /\ calls'["A"].resp.errCode # "470" ) =>
                   /\ calls'["A"].lastErr.code = "SERVER_ERROR"
                   /\ calls'["A"].lastErr.statusCode = calls'["A"].resp.status ]_vars
    /\ []((calls["A"].pc = "done" /\ calls["A"].threw) =>
            /\ calls["A"].lastErr.isSet
            /\ calls["A"].lastErr.message # Text("Unknown error sending message"))

\* a send whose third attempt was rate limited has thrown the rate-limited error
C12_Witness ==
    /\ calls["A"].pc = "done"
    /\ calls["A"].threw
    /\ calls["A"].ffPosts = 3
    /\ calls["A"].resp.status = 429
    /\ calls["A"].lastErr.code = "RATE_LIMITED"

----------------------------------------------------------------------------
(* Properties of the webhook entry point (checked under SpecWebhook) *)

WebhookAnswered == last.op = "handleWebhook"

SecretConfigured == HandlerSecret # Undef /\ HandlerSecret # ""

\* the request carries a signature that is not the HMAC of its raw body under the secret
SignatureMismatch ==
    /\ SecretConfigured
    /\ last.sig \notin { << Undef >>, <<>> }
    /\ last.sig # << "sha256", HandlerSecret >> \o last.body.raw

Routed ==
    /\ WebhookAnswered
    /\ hasWebhookHandler
    /\ last.body.parse # "bad"
    /\ ~SignatureMismatch

\* C14 as stated: once the body has parsed and the signature check has passed or been
\* skipped, every error raised while routing or inside a caller callback is swallowed and the
\* answer is 200 with a warning. Violated: a callback throwing an error named SyntaxError is
\* answered 400 'Invalid JSON' without a warning.
C14_Original ==
    (Routed /\ last.caught # "none") => (last.status = 200 /\ last.warning)

SignatureSupplied == last.sig \notin { << Undef >>, <<>> }

\* what dispatching the last webhook leaves behind: the activity time for a delivery event,
\* and one invocation of the registered callback of the payload's type
DispatchedUnchecked ==
    /\ ~last.validated
    /\ last.status # 401
    /\ last.body.type = "message-event" =>
           /\ lastActivity = now
           /\ "onStatusUpdate" \in events => Len(last.cbs) = 1 /\ last.cbs[1].cb = "onStatusUpdate"
    /\ (last.body.type = "user-event" /\ "onUserEvent" \in events) =>
           Len(last.cbs) = 1 /\ last.cbs[1].cb = "onUserEvent"
    /\ (last.body.type = "message" /\ last.body.senderOk /\ events = AllEvents) =>
           Len(last.cbs) = 1 /\ last.cbs[1].cb \in { "onMessage", "onAccessDenied" }

\* C15 as stated: signature validation is performed if and only if a webhook secret is
\* configured and the request carries a signature. Violated: a body that is not parseable
\* JSON is answered before the gate, and an empty signature is not validated.
C15_Original ==
    (WebhookAnswered /\ hasWebhookHandler) =>
        (last.validated <=> (SecretConfigured /\ last.sig # << Undef >>))

\* C15: for a webhook whose body parsed as JSON, signature validation is performed if and
\* only if a non-empty webhook secret is configured and the request carries a non-empty
\* signature; with no secret, or with a secret and an absent or empty signature, the payload
\* is dispatched without validation. A body that is not parseable JSON is answered 400
\* before the gate and never validated, and so is every webhook before initialize (500).
C15_SignatureGate ==
    WebhookAnswered =>
        /\ last.validated <=>
               /\ hasWebhookHandler
               /\ last.body.parse # "bad"
               /\ SecretConfigured
               /\ SignatureSupplied
        /\ ( /\ hasWebhookHandler
             /\ last.body.parse # "bad"
             /\ ~(SecretConfigured /\ SignatureSupplied) ) => DispatchedUnchecked

\* a delivery event carrying no signature is dispatched by a channel configured with a secret
C15_Witness ==
    /\ WebhookAnswered
    /\ SecretConfigured
    /\ last.sig = << Undef >>
    /\ last.body.type = "message-event"
    /\ ~last.validated
    /\ last.status = 200
    /\ Len(last.cbs) = 1

\* the webhook step leaves sessions and health records as they were and invokes no callback
NothingDispatched ==
    /\ last'.cbs = <<>>
    /\ sessions' = sessions
    /\ inboundAt' = inboundAt
    /\ probe' = probe
    /\ lastActivity' = lastActivity

\* C16 as stated: with a secret configured, a supplied signature that is not the HMAC-SHA256
\* of the raw body (of whatever length) is answered 401 and nothing is dispatched.
\* Violated: a body that is not parseable JSON is answered 400 whatever its signature, and an
\* empty signature is not checked at all.
C16_Original ==
    [][ ( /\ last'.op = "handleWebhook"
          /\ SecretConfigured
          /\ last'.sig # << Undef >>
          /\ last'.sig # << "sha256", HandlerSecret >> \o last'.body.raw )
        => (last'.status = 401 /\ NothingDispatched) ]_vars

\* C16: with a secret configured, a non-empty signature that is not the HMAC-SHA256 of the
\* raw body under that secret (same length or not) is never dispatched: no callback is
\* invoked and sessions, activity time and health records stay as they were. The answer is
\* 401 when the body parsed as JSON and 400 when it did not (the body is parsed first).
C16_MismatchRejected ==
    [][ (last'.op = "handleWebhook" /\ SignatureMismatch')
        => /\ last'.status = (IF last'.body.parse = "bad" THEN 400 ELSE 401)
           /\ last'.validated <=> last'.body.parse # "bad"
           /\ NothingDispatched ]_vars

\* a message from an allowlisted sender, signed with another secret (a signature of the
\* expected length), is answered 401 and leaves no session
C16_Witness ==
    /\ WebhookAnswered
    /\ last.status = 401
    /\ last.sig = << "sha256", "guess!" >> \o last.body.raw
    /\ last.body.type = "message"
    /\ last.body.phone = P15
    /\ P15 \in allowlist
    /\ P15 \notin DOMAIN sessions

\* the callbacks the last webhook invoked are the ones of its payload type, with the
\* event's fields copied
DispatchedByType ==
    /\ last.body.type = "message-event" =>
           \/ last.cbs = <<>> /\ "onStatusUpdate" \notin events
           \/ last.cbs = << [phone |-> last.body.phone, id |-> last.body.id,
                             cb |-> "onStatusUpdate", arg |-> last.body.mtype] >>
    /\ last.body.type = "message" =>
           /\ Len(last.cbs) <= 1
           /\ \A i \in 1..Len(last.cbs) : last.cbs[i].cb \in { "onMessage", "onAccessDenied" }
    /\ last.body.type = "user-event" =>
           \/ last.cbs = <<>> /\ "onUserEvent" \notin events
           \/ last.cbs = << [phone |-> last.body.phone, id |-> Undef,
                             cb |-> "onUserEvent", arg |-> last.body.mtype] >>
    /\ last.body.type \notin { "message", "message-event", "user-event" } => last.cbs = <<>>

\* C17 as stated: a routed webhook invokes only the callback of its payload type
\* (onStatusUpdate once with status, message id and destination of a 'message-event', the
\* inbound flow for 'message', onUserEvent for 'user-event', none for an unknown type) and
\* is answered 200 in all four cases. Violated: when the invoked callback throws an error
\* named SyntaxError the answer is 400.
C17_Original ==
    Routed => (DispatchedByType /\ last.status = 200)

----------------------------------------------------------------------------
(* Account selection of sendMessage (checked under SpecSend) *)

\* this step is sendMessage on an initialized, started channel
SendOnStarted ==
    /\ last'.op = "sendMessage"
    /\ phase = "initialized"
    /\ connected

\* the name the envelope and the configuration designate
DesignatedAccount ==
    IF calls'["A"].account # Undef THEN calls'["A"].account
    ELSE IF config.defaultAccount # Undef THEN config.defaultAccount
    ELSE accounts[1].name

ResolvedNames == { accounts[i].name : i \in 1..Len(accounts) }

\* C18: sendMessage (on an initialized, started channel) selects the account named by
\* envelope.metadata.account when present, else config.defaultAccount, else the first
\* resolved account; when that name matches no resolved account it returns the failure
\* "Account '<name>' not found" without falling back to another account, without any HTTP
\* request, then or later, and without changing health or session state.
C18_AccountSelection ==
    [][ /\ SendOnStarted =>
             IF DesignatedAccount \in ResolvedNames
             THEN /\ calls'["A"].accountName = DesignatedAccount
                  /\ calls'["A"].pc = "done" =>
                         calls'["A"].result.error # << "Account '", DesignatedAccount, "' not found" >>
             ELSE /\ calls'["A"].pc = "done"
                  /\ calls'["A"].result =
                        [error |-> << "Account '", DesignatedAccount, "' not found" >>, success |-> FALSE,
                         messageId |-> Undef]
                  /\ calls'["A"].ffPosts = 0
                  /\ calls'["A"].tplPosts = 0
                  /\ probe' = probe
                  /\ sessions' = sessions
                  /\ lastActivity' = lastActivity
                  /\ lastError' = lastError
        /\ (calls["A"].pc = "done" /\ calls["A"].ffPosts + calls["A"].tplPosts = 0)
               => calls'["A"] = calls["A"] ]_vars

\* an envelope naming the unknown account "ghost" was refused although the configuration
\* names a valid default account
C18_Witness ==
    /\ last.op = "sendMessage"
    /\ connected
    /\ config.defaultAccount = "alt"
    /\ "alt" \in ResolvedNames
    /\ calls["A"].account = "ghost"
    /\ calls["A"].pc = "done"
    /\ calls["A"].result.error = << "Account '", "ghost", "' not found" >>
    /\ calls["A"].ffPosts + calls["A"].tplPosts = 0

----------------------------------------------------------------------------
(* The public entry points never throw (checked under SpecEntry) *)

\* the sendMessage call has completed
SendCompleted == calls["A"].layer = "channel" /\ calls["A"].pc = "done"

\* C19: for every envelope, every webhook body and every outcome of the Delivery Client or
\* of a caller callback, sendMessage and handleWebhook complete with a structured result and
\* never throw: a sendMessage call has not thrown at any point and, once completed, holds a
\* result record (success, messageId, error), also after a transformer error, a network
\* failure, exhausted retries or a failure of the template fallback entered after a
\* session-expired error; a webhook whose routing or callback raised an error is still
\* answered with a status.
C19_NeverThrows ==
    /\ calls["A"].layer = "channel" => ~calls["A"].threw
    /\ SendCompleted =>
           /\ DOMAIN calls["A"].result = { "success", "messageId", "error" }
           /\ calls["A"].result.success \in BOOLEAN
           /\ calls["A"].result.success => calls["A"].result.error = <<>>
    /\ WebhookAnswered =>
           /\ last.status \in { 200, 400, 401, 500 }
           /\ last.caught # "none" => last.status \in { 200, 400 }

\* the free-form attempt was rejected as session-expired and the template fallback failed in
\* its turn; sendMessage returned a failure result
C19_Witness ==
    /\ SendCompleted
    /\ calls["A"].caughtSessionExpired
    /\ calls["A"].path = "template"
    /\ calls["A"].tplPosts >= 1
    /\ calls["A"].lastErr.isSet
    /\ ~calls["A"].result.success
    /\ SubSeq(calls["A"].result.error, 1, 1) = << "Template send failed: " >>

----------------------------------------------------------------------------
(* The purge of expired sessions (checked under SpecAccess) *)

\* the stored entries whose age has reached 24h
AgedOut == { k \in DOMAIN sessions : now - sessions[k].lastMessageAt >= Hours24 }

----------------------------------------------------------------------------
(* Session queries and the life of a conversation (checked under SpecSessions) *)

\* the stored entries, each with its flag set
EntriesAsActive == { [sessions[k] EXCEPT !.isActive = TRUE] : k \in DOMAIN sessions }

\* C21 as stated: for any phone, getSession returns the same value whether or not
\* clearExpiredSessions was called beforehand. Violated: for a phone whose entry has expired
\* getSession returns the stored timestamp before the purge and 0 after it.
C21_Original ==
    [][ last'.op = "clearExpiredSessions" =>
            \A p \in RawPhones : getSession(p)' = getSession(p) ]_vars

\* C21: the status query never creates or alters a session entry and reports inactive with
\* last-activity 0 for a phone never seen; a purge changes the answer of isSessionActive for
\* no phone, removes no entry reported active and leaves getSession as it was for every
\* active phone; after a purge every remaining entry is active (getActiveSessions equals the
\* remaining entries). For a phone whose entry has expired getSession keeps the flag false
\* but its last-activity goes from the stored timestamp to 0 with the purge.
C21_QueryIndependentOfPurge ==
    /\ [][ last'.op = "isSessionActive" =>
             /\ sessions' = sessions
             /\ last'.active = last'.session.isActive
             /\ last'.active <=> InboundWithin24h(last'.phone)
             /\ KeyOf(last'.phone) \notin DOMAIN inboundAt =>
                    last'.session = [phone |-> KeyOf(last'.phone), lastMessageAt |-> 0,
                                     isActive |-> FALSE] ]_vars
    /\ [][ last'.op = "clearExpiredSessions" =>
             /\ \A p \in RawPhones :
                   /\ isSessionActive(p)' = isSessionActive(p)
                   /\ isSessionActive(p) => getSession(p)' = getSession(p)
                   /\ ~isSessionActive(p) =>
                          getSession(p)' = [phone |-> KeyOf(p), lastMessageAt |-> 0,
                                            isActive |-> FALSE]
             /\ getActiveSessions' = getActiveSessions
             /\ getActiveSessions' = EntriesAsActive' ]_vars

\* a phone seen more than 24h ago was purged and then queried: inactive, last-activity 0
C21_Witness ==
    /\ last.op = "isSessionActive"
    /\ KeyOf(last.phone) \in DOMAIN inboundAt
    /\ KeyOf(last.phone) \notin DOMAIN sessions
    /\ ~last.active
    /\ last.session.lastMessageAt = 0
    /\ \E k \in DOMAIN sessions : now - sessions[k].lastMessageAt < Hours24

----------------------------------------------------------------------------
(* The purge as housekeeping (checked under SpecAccess) *)

\* C22 as stated: in every reachable state and under every access policy, calling
\* clearExpiredSessions changes neither the result of a subsequent checkAccess for any phone
\* nor the path (free-form or template) a subsequent sendMessage takes. Violated: under the
\* pairing policy a phone that is no longer allowlisted is permitted as long as its expired
\* entry is stored, and denied once the purge has deleted it.
C22_Original ==
    [][ last'.op = "clearExpiredSessions" =>
            \A p \in RawPhones :
                /\ checkAccess(p)' = checkAccess(p)
                /\ SessionAllowsFreeForm(p)' = SessionAllowsFreeForm(p) ]_vars

----------------------------------------------------------------------------
(* Account resolution (checked under SpecResolve) *)

\* the trimmed content of the credential file a configured path designates
FileText(path) ==
    CASE path = << "~", "/", "k" >> -> << "a", "b", "c", "1" >>
      [] path = << "$", "K", "/", "k" >> -> << "k", "2" >>
      [] OTHER -> << Undef >>

\* the credential of one level: the direct value when set, else the content of the file
CredentialOf(level) ==
    IF level.apiKey # << Undef >> THEN level.apiKey
    ELSE IF level.apiKeyFile # << Undef >> THEN FileText(level.apiKeyFile)
    ELSE << Undef >>

HasCredential(level) == level.apiKey # << Undef >> \/ level.apiKeyFile # << Undef >>

MultiAccountResolved == config # NoConfig /\ Len(config.accounts) > 0 /\ accounts # <<>>

\* C23 as stated: in multi-account resolution each field is taken from the account block
\* when set there and from the top level only otherwise; a credential configured on the
\* account (direct value or file path) overrides any credential configured at the top
\* level, and within one level a direct value takes precedence over a file path. Violated:
\* with a credential file on the account and a direct value at the top level the resolved
\* credential is the top-level value.
C23_Original ==
    MultiAccountResolved =>
        LET own == config.accounts[1].cfg
        IN  /\ accounts[1].apiKey =
                  (IF HasCredential(own) THEN CredentialOf(own) ELSE CredentialOf(config))
            /\ accounts[1].businessName =
                  (IF own.businessName # Undef THEN own.businessName ELSE config.businessName)
            /\ accounts[1].webhookSecret =
                  (IF own.webhookSecret # Undef THEN own.webhookSecret ELSE config.webhookSecret)

\* the credential in effect for a level whose parent is `top` cannot be obtained: no direct
\* value is in effect (the level's, else the parent's) and the file in effect (the level's,
\* else the parent's) is unset or unreadable
NoCredential(level, top) ==
    /\ level.apiKey = << Undef >>
    /\ top.apiKey = << Undef >>
    /\ FileText(IF level.apiKeyFile # << Undef >> THEN level.apiKeyFile ELSE top.apiKeyFile)
           = << Undef >>

\* the configuration the claim calls unresolvable
Defective(cfg) ==
    IF Len(cfg.accounts) > 0
    THEN \/ \E i \in 1..Len(cfg.accounts) :
               \/ NoCredential(cfg.accounts[i].cfg, cfg)
               \/ cfg.accounts[i].cfg.appId = Undef
               \/ cfg.accounts[i].cfg.phoneNumber = << Undef >>
         \/ /\ cfg.defaultAccount # Undef
            /\ \A i \in 1..Len(cfg.accounts) : cfg.accounts[i].name # cfg.defaultAccount
    ELSE \/ NoCredential(cfg, cfg)
         \/ cfg.appId = Undef
         \/ cfg.sourcePhone = << Undef >>
         \/ cfg.defaultAccount \notin { Undef, "default" }

\* an account record with every required field present
Complete(account) ==
    /\ account.apiKey \notin { << Undef >>, <<>> }
    /\ account.appId \notin { Undef, "" }
    /\ account.phoneNumber \notin { << Undef >>, <<>> }

\* C24: configuration resolution fails with an error, and initialize() rejects, whenever a
\* configured account has no resolvable credential, no app id or no phone number, or when
\* defaultAccount names no configured account, and only then; a rejected initialize leaves
\* the channel without a webhook handler; no account record the channel holds has an empty
\* credential, app id or phone number.
C24_DefectiveConfigRejected ==
    /\ [][ last'.op = "initialize" =>
             /\ last'.threw <=> Defective(config')
             /\ last'.threw => (phase' = "initFailed" /\ ~hasWebhookHandler')
             /\ ~last'.threw => (phase' = "initialized" /\ Len(accounts') > 0) ]_vars
    /\ [](\A i \in 1..Len(accounts) : Complete(accounts[i]))

\* initialize was rejected because defaultAccount names no configured account, after both
\* accounts resolved
C24_Witness ==
    /\ last.op = "initialize"
    /\ last.threw
    /\ phase = "initFailed"
    /\ config.defaultAccount = "ghost"
    /\ Len(accounts) = 2

----------------------------------------------------------------------------
(* The life of a conversation (checked under SpecSessions) *)

\* the state of the conversation with a number, as the session map and the clock give it
StateIn(map, time, phone) ==
    IF KeyOf(phone) \notin DOMAIN map THEN "NoSession"
    ELSE IF time - map[KeyOf(phone)].lastMessageAt < Hours24 THEN "Active"
    ELSE "Expired"

ConversationState(phone) == StateIn(sessions, now, phone)

\* this step forwarded an inbound message to the caller's message handler
Forwarded ==
    /\ last'.op = "handleWebhook"
    /\ Len(last'.cbs) = 1
    /\ last'.cbs[1].cb = "onMessage"

\* C25: per normalized phone the conversation is NoSession until the first permitted inbound
\* message; a permitted inbound message received in any state makes it Active with
\* last-activity equal to the receipt time, also when the caller's message handler then
\* fails; it is Active exactly while the last permitted inbound message is less than 24 hours
\* old, and Expired (or NoSession again, after a purge) from then on until the next one.
C25_ConversationLifecycle ==
    /\ [](\A p \in RawPhones :
            /\ KeyOf(p) \notin DOMAIN inboundAt => ConversationState(p) = "NoSession"
            /\ ConversationState(p) = "Active" <=> InboundWithin24h(p)
            /\ ConversationState(p) = "Active" <=> isSessionActive(p))
    /\ [][ Forwarded =>
             /\ StateIn(sessions', now', last'.cbs[1].phone) = "Active"
             /\ sessions'[KeyOf(last'.cbs[1].phone)].phone = KeyOf(last'.cbs[1].phone)
             /\ sessions'[KeyOf(last'.cbs[1].phone)].lastMessageAt = now
             /\ \A p \in RawPhones :
                    KeyOf(p) # KeyOf(last'.cbs[1].phone) =>
                        ConversationState(p)' = ConversationState(p) ]_vars
    /\ [][ last'.op = "tick" =>
             \A p \in RawPhones :
                 /\ ConversationState(p) = "NoSession" => ConversationState(p)' = "NoSession"
                 /\ ConversationState(p) = "Expired" => ConversationState(p)' = "Expired"
                 /\ ConversationState(p) = "Active" =>
                        ConversationState(p)' =
                            IF now' - inboundAt[KeyOf(p)] < Hours24 THEN "Active" ELSE "Expired" ]_vars

\* an expired conversation became Active again by an inbound message whose handler failed,
\* while another conversation is Expired
C25_Witness ==
    /\ last.op = "handleWebhook"
    /\ last.caught = "Error"
    /\ Len(last.cbs) = 1
    /\ last.cbs[1].cb = "onMessage"
    /\ ConversationState(P15) = "Active"
    /\ sessions[KeyOf(P15)].lastMessageAt >= StartTime + Hours24
    /\ ConversationState(P19) = "Expired"

----------------------------------------------------------------------------
(* What may change the session map (checked under SpecFrame) *)

\* the sessions of every number but the one given are what they were
OthersKept(key) ==
    /\ DOMAIN sessions' \ { key } = DOMAIN sessions \ { key }
    /\ \A k \in DOMAIN sessions \ { key } : sessions'[k] = sessions[k]

\* C26: the session map changes only through a permitted inbound message, which creates or
\* refreshes the sender's entry, and clearExpiredSessions, which deletes expired entries and
\* nothing else; sendMessage on every path, delivery-status and user-event webhooks, denied
\* inbound messages, allowlist mutations, health checks, start and stop leave it unchanged.
C26_SessionMapFrame ==
    [][ /\ sessions' # sessions => (Forwarded \/ last'.op = "clearExpiredSessions")
        /\ Forwarded =>
               /\ KeyOf(last'.cbs[1].phone) \in DOMAIN sessions'
               /\ OthersKept(KeyOf(last'.cbs[1].phone))
        /\ last'.op = "clearExpiredSessions" =>
               /\ DOMAIN sessions' = DOMAIN sessions \ AgedOut
               /\ \A k \in DOMAIN sessions' : sessions'[k] = sessions[k]
        /\ last'.op \in { "sendMessage", "httpResponse", "backoffElapsed", "checkHealth",
                          "start", "stop", "addToAllowlist", "removeFromAllowlist" } =>
               sessions' = sessions ]_vars

\* a send to a number whose session has expired has succeeded and the session is still the
\* expired one
C26_Witness ==
    /\ SendCompleted
    /\ calls["A"].result.success
    /\ calls["A"].path = "template"
    /\ ConversationState(calls["A"].dest) = "Expired"
    /\ sessions[KeyOf(calls["A"].dest)].lastMessageAt = StartTime

----------------------------------------------------------------------------
(* Health and status after a send (checked under SpecSend) *)

\* the call fell back to a template after a session-expired rejection and returned success
FallbackSucceeded ==
    /\ SendCompleted
    /\ calls["A"].caughtSessionExpired
    /\ calls["A"].result.success

\* GupshupChannel.getStatus().error
StatusError == lastError

\* C27: a session-expired rejection handled by a successful template fallback is not recorded
\* as a failure: once that sendMessage call has returned success, the account's health record
\* is connected with no error, and getStatus reports no error.
C27_Original ==
    FallbackSucceeded =>
        /\ probe.statuses[calls["A"].accountName].connected
        /\ probe.statuses[calls["A"].accountName].error = << Undef >>
        /\ StatusError = << Undef >>

----------------------------------------------------------------------------
(* The template sent on the fallback path (checked under SpecTemplate) *)

\* the template send of the call was issued
TemplateSendIssued ==
    /\ calls["A"].layer = "channel"
    /\ calls["A"].path = "template"
    /\ calls["A"].tplPosts > 0

\* the account the call resolved
UsedAccount == accounts[CHOOSE i \in 1..Len(accounts) : accounts[i].name = calls["A"].accountName]

\* the first min(n, length) characters of a text
FirstChars(text, n) == [i \in 1..(IF Len(text) < n THEN Len(text) ELSE n) |-> text[i]]

\* C28 as stated: whenever the template send is issued, it carries the id of the first
\* template of the resolved account and one parameter, the envelope's text cut to 1024
\* characters
C28_Original ==
    TemplateSendIssued =>
        /\ calls["A"].message.templateId = UsedAccount.templates[1].id
        /\ calls["A"].message.params = << FirstChars(calls["A"].content.text, 1024) >>

\* C28: on the template path with at least one template configured, the template sent is the
\* first of the resolved account's template map and the send carries its id; when that
\* template declares a non-zero paramCount the send carries one parameter, the envelope's
\* text (the placeholder [Message] when it has none) cut to at most 1024 characters, and
\* otherwise it carries no parameters.
C28_FirstTemplateTruncatedText ==
    TemplateSendIssued =>
        /\ Len(UsedAccount.templates) > 0
        /\ calls["A"].message.type = "template"
        /\ calls["A"].message.templateId = UsedAccount.templates[1].id
        /\ calls["A"].message.params =
               IF UsedAccount.templates[1].paramCount = 0 THEN <<>>
               ELSE IF calls["A"].content.text = << Undef >> THEN << << "[Message]" >> >>
               ELSE << FirstChars(calls["A"].content.text, 1024) >>
        /\ \A i \in 1..Len(calls["A"].message.params) : Len(calls["A"].message.params[i]) <= 1024

\* a template send was issued for a text longer than 1024 characters, cut to 1024
C28_Witness ==
    /\ TemplateSendIssued
    /\ Len(calls["A"].content.text) > 1024
    /\ Len(calls["A"].message.params) = 1
    /\ Len(calls["A"].message.params[1]) = 1024

----------------------------------------------------------------------------
(* The health record after each send (checked under SpecSend) *)

\* this step is the answer of the provider that ends the sendMessage call
Returning ==
    /\ last'.op = "httpResponse"
    /\ calls["A"].layer = "channel"
    /\ calls'["A"].pc = "done"

\* the call ends with a failure result that carries a message, and not by the free-form
\* send being rejected as session-expired in this step: the client threw another error
ReturningFailure ==
    /\ Returning
    /\ ~calls'["A"].result.success
    /\ calls'["A"].result.error # <<>>
    /\ calls["A"].path = "freeform" => ~calls'["A"].caughtSessionExpired

\* the health record of the account the call uses, after the step
HealthAfter == probe'.statuses[calls'["A"].accountName]

\* C29: the health record of the account used tracks the outcome of each sendMessage call:
\* when the call returns success:true the account is connected, its error cleared and its
\* last-activity the time of the return; when the Delivery Client throws an error other than
\* session-expired the call returns success:false with the error's message (prefixed with
\* 'Template send failed: ' on the template path), the account is not connected and carries
\* that message, and the orchestrator issues no further send; the only send the orchestrator
\* issues after a throw is the template send that follows a session-expired rejection of the
\* free-form send.
C29_HealthTracksOutcome ==
    /\ [][ (Returning /\ calls'["A"].result.success) =>
             /\ HealthAfter.connected
             /\ HealthAfter.error = << Undef >>
             /\ HealthAfter.lastActivity = now
             /\ lastActivity' = now ]_vars
    /\ [][ ReturningFailure =>
             /\ calls'["A"].lastErr.isSet
             /\ calls["A"].path = "freeform" => calls'["A"].lastErr.code # "SESSION_EXPIRED"
             /\ calls'["A"].result.error =
                    IF calls["A"].path = "template"
                    THEN << "Template send failed: " >> \o calls'["A"].lastErr.message
                    ELSE calls'["A"].lastErr.message
             /\ ~HealthAfter.connected
             /\ HealthAfter.error = calls'["A"].lastErr.message
             /\ calls'["A"].ffPosts = calls["A"].ffPosts
             /\ calls'["A"].tplPosts = calls["A"].tplPosts ]_vars
    /\ [][ (last'.op = "httpResponse" /\ calls["A"].layer = "channel"
              /\ calls'["A"].pc = "request") =>
             /\ calls["A"].path = "freeform"
             /\ calls'["A"].path = "template"
             /\ ~calls["A"].caughtSessionExpired
             /\ calls'["A"].caughtSessionExpired
             /\ lastError' = << "Session expired. User must message first or use a template." >>
             /\ calls'["A"].tplPosts = 1 ]_vars

\* the template send that followed a session-expired rejection has failed: the call returned
\* the prefixed error and the account is not connected
C29_Witness ==
    /\ last.op = "httpResponse"
    /\ SendCompleted
    /\ calls["A"].caughtSessionExpired
    /\ calls["A"].path = "template"
    /\ ~calls["A"].result.success
    /\ calls["A"].result.error = << "Template send failed: " >> \o calls["A"].lastErr.message
    /\ ~probe.statuses[calls["A"].accountName].connected
    /\ probe.statuses[calls["A"].accountName].error = calls["A"].lastErr.message

----------------------------------------------------------------------------
(* Shape of the session map and of what is read from it (checked under SpecSessions) *)

DigitChars == { "0", "1", "2", "3", "4", "5", "6", "7", "8", "9" }

\* the entry of the key is less than 24 hours old now
Young(k) == now - sessions[k].lastMessageAt < Hours24

\* C30: in every reachable state each key of the session map is a digits-only string equal to
\* its entry's phone field, so the written forms of one number share one entry; the stored
\* timestamp of a number never decreases from one inbound message to the next; and the
\* active flag of every read (isSessionActive, getSession, getActiveSessions) is
\* (now - last inbound) < 24h at the time of the read, whatever the stored flag says.
C30_KeysTimestampsDerivedFlag ==
    /\ [](\A k \in DOMAIN sessions :
            /\ \A i \in 1..Len(k) : k[i] \in DigitChars
            /\ sessions[k].phone = k
            /\ \E p \in RawPhones : KeyOf(p) = k)
    /\ [](getActiveSessions =
            { [phone |-> k, lastMessageAt |-> sessions[k].lastMessageAt, isActive |-> TRUE] :
                k \in { x \in DOMAIN sessions : Young(x) } })
    /\ [][ /\ \A k \in DOMAIN sessions \cap DOMAIN sessions' :
                 sessions'[k].lastMessageAt >= sessions[k].lastMessageAt
           /\ \A k \in DOMAIN sessions' \cap DOMAIN inboundAt :
                 sessions'[k].lastMessageAt >= inboundAt[k] ]_vars
    /\ [][ last'.op = "isSessionActive" =>
             /\ last'.active = (KeyOf(last'.phone) \in DOMAIN sessions /\ Young(KeyOf(last'.phone)))
             /\ last'.session.isActive = last'.active
             /\ last'.session.phone = KeyOf(last'.phone) ]_vars

\* a query by a written form with punctuation was answered inactive for a number whose entry
\* is stored with the flag set
C30_Witness ==
    /\ last.op = "isSessionActive"
    /\ ~last.active
    /\ KeyOf(last.phone) \in DOMAIN sessions
    /\ sessions[KeyOf(last.phone)].isActive
    /\ last.phone # KeyOf(last.phone)
    /\ getActiveSessions = {}

----------------------------------------------------------------------------
(* Check and record in one step (checked under SpecAccess) *)

\* the policy in force
PolicyInForce == IF config = NoConfig \/ config.dmPolicy = Undef THEN "open" ELSE config.dmPolicy

\* an access check of the number with this key, made now, permits it
AllowedNow(k) ==
    CASE PolicyInForce = "allowlist" -> k \in allowlist
      [] PolicyInForce = "pairing" -> k \in allowlist \/ k \in DOMAIN sessions
      [] OTHER -> TRUE

\* the keys whose entry this step creates or rewrites
Recorded == { k \in DOMAIN sessions' : k \notin DOMAIN sessions \/ sessions'[k] # sessions[k] }

\* C31: the access check and the session update of a permitted inbound message are one step:
\* a session entry is created or rewritten only by the webhook of a message from that sender,
\* and only when a check made in the state the entry is written from permits the sender,
\* whatever allowlist removals, purges and other webhooks came before; the allowlist is not
\* changed by that step.
C31_CheckAndRecordAtomic ==
    [][ \A k \in Recorded :
            /\ last'.op = "handleWebhook"
            /\ last'.body.type = "message"
            /\ KeyOf(last'.body.phone) = k
            /\ AllowedNow(k)
            /\ sessions'[k].lastMessageAt = now
            /\ allowlist' = allowlist ]_vars

\* under the allowlist policy a message of a number added at run time was recorded after the
\* configured number had been removed from the list, and that number has no session
C31_Witness ==
    /\ last.op = "handleWebhook"
    /\ config # NoConfig
    /\ config.dmPolicy = "allowlist"
    /\ KeyOf(last.body.phone) = P19
    /\ P19 \in DOMAIN sessions
    /\ sessions[P19].lastMessageAt = now
    /\ allowlist = { P19 }
    /\ P15 \notin DOMAIN sessions

----------------------------------------------------------------------------
(* Two sends to one destination (checked under SpecTwoSends) *)

\* the other of the two calls
OtherCall(c) == CHOOSE d \in { "A", "B" } : d # c

\* call c has an HTTP request in flight
InFlight(c) == calls[c].layer = "channel" /\ calls[c].pc = "request"

\* C32: two sendMessage calls to the same destination are not serialized: while one has a
\* request in flight the other can start, both can have a request in flight at once and then
\* either answer can arrive first; a step of one call never changes the other call.
C32_SendsNotSerialized ==
    /\ [](\A c \in { "A", "B" } :
            /\ calls[c].pc = "idle" =>
                   ENABLED SendMessage(c, Envelope(P15plus, Undef, TextContent))
            /\ calls[c].pc = "request" =>
                   \A r \in FrameResponses : ENABLED HttpResponse(c, r)
            /\ calls[c].pc = "backoff" => ENABLED BackoffElapsed(c))
    /\ [][ \A c \in { "A", "B" } :
             (last'.op \in { "sendMessage", "httpResponse", "backoffElapsed" } /\ last'.call = c)
                 => calls'[OtherCall(c)] = calls[OtherCall(c)] ]_vars

\* both calls have a free-form request to the same destination in flight
C32_Witness ==
    /\ InFlight("A")
    /\ InFlight("B")
    /\ calls["A"].wireDest = calls["B"].wireDest
    /\ calls["A"].path = "freeform"
    /\ calls["B"].path = "freeform"

----------------------------------------------------------------------------
(* The message transformer (checked under SpecTransform) *)

\* the provider's echo of a text wire message: an inbound text payload with its text
EchoOf(wire) ==
    [phone |-> P15plus, id |-> "in1", type |-> "message",
     payload |-> [text |-> wire.text, filename |-> Undef, caption |-> Undef, url |-> Undef,
                  contentType |-> Undef, isObject |-> TRUE, hasName |-> FALSE],
     mtype |-> "text", senderOk |-> TRUE, raw |-> << "message", "text" >>, parse |-> "object"]

\* this step applied transformOutbound to a text content whose text is defined
OutboundOfText ==
    /\ last'.op = "transformOutbound"
    /\ last'.content.type = "text"
    /\ last'.content.text # << Undef >>

\* C33: for every text envelope with a defined text, transformOutbound produces a text wire
\* message whose text, fed back as an inbound text payload through transformInbound, yields an
\* envelope whose content is of type 'text' with exactly the original text.
C33_TextRoundTrip ==
    [][ OutboundOfText =>
          /\ ~last'.out.threw
          /\ last'.out.message.type = "text"
          /\ ~transformInbound(EchoOf(last'.out.message), SourcePhone).threw
          /\ transformInbound(EchoOf(last'.out.message), SourcePhone).content.type = "text"
          /\ transformInbound(EchoOf(last'.out.message), SourcePhone).content.text
                 = last'.content.text ]_vars

\* a text with blanks around it went out as it is
C33_Witness ==
    /\ last.op = "transformOutbound"
    /\ last.content.type = "text"
    /\ last.content.text = << " ", "a", " " >>
    /\ last.out.message.text = << " ", "a", " " >>

\* the content types the provider documents for inbound messages
KnownInbound == { "text", "image", "document", "audio", "video", "location", "contact", "sticker" }

\* the content types with a wire message of their own kind (a sticker goes out as an image)
WireTypeOf(type) ==
    CASE type \in { "text", "image", "audio", "video", "location" } -> type
      [] type = "document" -> "file"
      [] type = "sticker" -> "image"
      [] OTHER -> "text"

\* this step is a send of a location content without coordinates to an active session, on
\* a started channel
SendOfBareLocation ==
    /\ last'.op = "sendMessage"
    /\ connected
    /\ phase = "initialized"
    /\ calls'["A"].content.type = "location"
    /\ ~calls'["A"].content.hasLocation
    /\ InboundWithin24h(calls'["A"].dest)

\* what holds of both directions on content types, recognised or not
DegradesToText ==
    /\ last'.op = "transformInbound" =>
           ((last'.body.mtype \notin KnownInbound /\ last'.body.senderOk) =>
                /\ ~last'.out.threw
                /\ last'.out.content.type = "text"
                /\ last'.out.content.text = << "[Received ", last'.body.mtype, " message]" >>)
    /\ last'.op = "transformOutbound" =>
           /\ ~last'.out.threw => last'.out.message.type = WireTypeOf(last'.content.type)
           /\ last'.content.type = "contact" =>
                  /\ ~last'.out.threw
                  /\ last'.out.message.text \in { << "Contact: ..." >>, << "Contact shared" >> }
           /\ last'.content.type = "poll" =>
                  /\ ~last'.out.threw
                  /\ last'.out.message.text =
                         IF last'.content.text = << Undef >>
                         THEN << "[Unsupported message type]" >>
                         ELSE last'.content.text
           /\ last'.out.threw <=> (last'.content.type = "location" /\ ~last'.content.hasLocation)
    /\ SendOfBareLocation =>
           /\ calls'["A"].pc = "done"
           /\ ~calls'["A"].result.success
           /\ calls'["A"].result.error = << "Location content is required for location messages" >>
           /\ calls'["A"].ffPosts = 0
           /\ calls'["A"].tplPosts = 0

DigitsOnly(phone) == SelectSeq(phone, LAMBDA ch : ch \in DigitChars)

\* C35: every phone normalisation (orchestrator, wire transformer, API client form
\* encoding) yields the same digits-only string for the same input, so the destination
\* placed on the wire for a send equals the key of that destination's session lookup
C35_Original ==
    [][ /\ last'.op = "normalizePhone" =>
               /\ last'.channel = DigitsOnly(last'.phone)
               /\ last'.transformer = last'.channel
               /\ last'.client = last'.channel
        /\ \A c \in DOMAIN calls :
               (calls[c].pc # "request" /\ calls'[c].pc = "request") =>
                   calls'[c].wireDest = KeyOf(calls'[c].dest) ]_vars

\* a free-form request is in flight whose wire destination is not the session key of
\* its destination
C35_Diverged ==
    /\ calls["A"].pc = "request"
    /\ calls["A"].path = "freeform"
    /\ isSessionActive(calls["A"].dest)
    /\ calls["A"].wireDest # KeyOf(calls["A"].dest)

\* the template sends under a scheduler that lets every pending answer arrive (the fetch
\* resolves or rejects) and every backoff timer fire
SpecTemplateFair ==
    /\ InitSend
    /\ [][NextTemplate]_vars
    /\ WF_vars(\E r \in FrameResponses : HttpResponse("A", r))
    /\ WF_vars(BackoffElapsed("A"))

\* the POSTs of one call: free-form first, template after
PostsBounded ==
    /\ calls["A"].ffPosts <= 3
    /\ calls["A"].tplPosts <= 3
    /\ calls["A"].ffPosts + calls["A"].tplPosts <= 6
    /\ (calls["A"].ffPosts > 0 /\ calls["A"].tplPosts > 0) => calls["A"].caughtSessionExpired
    /\ calls["A"].tplPosts > 0 => calls["A"].path = "template"

\* once on the template path a call stays there and posts no further free-form message
TemplateIsFinal ==
    calls["A"].path = "template" =>
        /\ calls'["A"].path = "template"
        /\ calls'["A"].ffPosts = calls["A"].ffPosts

\* C36: every sendMessage call terminates and makes at most 6 POSTs: at most 3 free-form
\* attempts followed, only after a session-expired rejection, by at most 3 template
\* attempts; the template path is never left for a free-form attempt
C36_SendTerminatesBounded ==
    /\ [] PostsBounded
    /\ [][TemplateIsFinal]_vars
    /\ [] (calls["A"].pc \in { "request", "backoff" } => <> (calls["A"].pc = "done"))

\* a call ended after three free-form and three template POSTs
C36_Witness ==
    /\ calls["A"].pc = "done"
    /\ calls["A"].ffPosts = 3
    /\ calls["A"].tplPosts = 3

\* two accounts and an allowlist, with a defaultAccount naming neither account
CfgGhostDefault == [CfgPairing EXCEPT !.defaultAccount = "ghost"]

\* an allowlist, and no credential at all
CfgNoKey == [CfgAllowlist EXCEPT !.apiKey = UndefStr]

RejectedEnvelopes ==
    { Envelope(P15plus, Undef, TextContent), Envelope(P15plus, "alt", TextContent) }

\* initialize with configurations of every kind, accepted and rejected, then start and sends
NextRejected ==
    \/ \E cfg \in ResolveConfigs \cup { CfgGhostDefault, CfgNoKey } : Initialize(cfg)
    \/ Start
    \/ \E e \in RejectedEnvelopes : SendMessage("A", e)
    \/ HttpResponse("A", Response("http", 200, "submitted", Undef, "gs-1"))

SpecRejected == InitSend /\ [][NextRejected]_vars

\* C37: a failed initialize() leaves no usable partial state: after initialize(config)
\* threw, start() throws 'Channel not initialized', sendMessage returns a failure without
\* any HTTP request, and no API client or allowlist entry of the rejected configuration
\* is retained
C37_Original ==
    phase = "initFailed" =>
        /\ apiClients = {}
        /\ allowlist = {}
        /\ ~connected
        /\ last.op = "start" =>
               (last.threw /\ last.error = "Channel not initialized. Call initialize() first.")
        /\ calls["A"].pc \in { "idle", "done" }
        /\ calls["A"].ffPosts + calls["A"].tplPosts = 0
        /\ calls["A"].pc = "done" => ~calls["A"].result.success

\* after a rejected configuration the channel was started and has a request in flight
C37_SendAfterRejection ==
    /\ phase = "initFailed"
    /\ connected
    /\ calls["A"].pc = "request"
    /\ allowlist # {}

\* what the provider can answer to a POST: no answer, accepted, answered 200 without
\* accepting, session expired
HealthResponses ==
    { NetworkFailure,
      Response("http", 200, "submitted", Undef, "gs-1"),
      Response("http", 200, "error", Undef, Undef),
      Response("http", 470, "error", "470", Undef) }

\* a started channel with sends, webhooks of every kind, health checks and the health route
NextHealth ==
    \/ Initialize(CfgAllowlist)
    \/ Start
    \/ \E b \in FrameBodies : HandleWebhook(b, NoSig, "ok")
    \/ SendMessage("A", Envelope(P15plus, Undef, TextContent))
    \/ \E r \in HealthResponses : HttpResponse("A", r)
    \/ BackoffElapsed("A")
    \/ \E checkApi \in BOOLEAN : \E a \in HealthAnswers : CheckHealth(checkApi, a)
    \/ HealthRoute

SpecHealth == InitSend /\ [][NextHealth]_vars

\* at least one account record of probe p is connected
SomeConnected(p) == \E n \in DOMAIN p.statuses : p.statuses[n].connected

\* the flag reported, the route's answer, and the records at initialize() and start()
HealthFlagAndRoute ==
    /\ last'.op \in { "checkHealth", "healthRoute" } => (last'.healthy <=> SomeConnected(probe'))
    /\ last'.op = "healthRoute" =>
           /\ probe' = probe
           /\ last'.status = 200 <=> SomeConnected(probe)
           /\ last'.status = 503 <=> ~SomeConnected(probe)
    /\ last'.op = "initialize" => ~SomeConnected(probe')
    /\ last'.op = "start" => probe' = probe

\* this step is a send returning success:true
SendSucceeded ==
    /\ calls["A"].pc = "request"
    /\ calls'["A"].pc = "done"
    /\ calls'["A"].result.success

\* this step is a send whose POST was answered without an error for the client to throw
SendAnswered ==
    /\ calls["A"].pc = "request"
    /\ calls'["A"].pc = "done"
    /\ ~calls'["A"].threw
    /\ calls'["A"].resp.kind = "http"
    /\ calls'["A"].resp.status = 200

\* this step is a delivery-status webhook reaching the status handler
StatusForwarded ==
    /\ last'.op = "handleWebhook"
    /\ Len(last'.cbs) = 1
    /\ last'.cbs[1].cb = "onStatusUpdate"

\* this step is checkHealth(true) with the provider answering neither 401 nor 403
ApiCheckPassed ==
    /\ last'.op = "checkHealth"
    /\ last'.healthy

\* the channel turns healthy in this step
TurnsHealthy == ~SomeConnected(probe) /\ SomeConnected(probe')

C38_UnsuccessfulSendHealthy ==
    /\ calls["A"].pc = "done"
    /\ ~calls["A"].result.success
    /\ last.op = "httpResponse"
    /\ SomeConnected(probe)
    /\ sessions = EmptyMap

\* call A is suspended: a request is in flight or a backoff is running
Suspended == calls["A"].pc \in { "request", "backoff" }

\* this step is the provider's session-expired rejection reaching sendMessage's catch
SessionExpiredCaught ==
    /\ calls["A"].pc = "request"
    /\ ~calls["A"].caughtSessionExpired
    /\ calls'["A"].caughtSessionExpired
    /\ calls'["A"].resp.status = 470

\* C39: sendMessage evaluates session freshness exactly once, before its first HTTP
\* attempt: the path is chosen from the session as it is when the call starts; while the
\* call is suspended an inbound message, the session crossing the 24h boundary or a purge
\* leaves the call as it is, and a call on the free-form path reaches the template path
\* only through a session-expired error from the provider, a call on the template path
\* never leaving it
C39_FreshnessEvaluatedOnce ==
    [][ /\ (calls["A"].pc = "idle" /\ calls'["A"].pc = "request") =>
               (calls'["A"].path = "freeform" <=> InboundWithin24h(calls'["A"].dest))
        /\ (Suspended /\ last'.op \in { "handleWebhook", "tick", "clearExpiredSessions" }) =>
               calls' = calls
        /\ (Suspended /\ calls'["A"].path # calls["A"].path) =>
               /\ calls["A"].path = "freeform"
               /\ calls'["A"].path = "template"
               /\ SessionExpiredCaught ]_vars

\* a free-form send was accepted although the session had expired while it was retried
C39_Witness ==
    /\ calls["A"].pc = "done"
    /\ calls["A"].path = "freeform"
    /\ calls["A"].result.success
    /\ calls["A"].ffPosts > 1
    /\ ~InboundWithin24h(calls["A"].dest)

\* the refusal sendMessage owes a channel that is not connected
RefusalWhenDown ==
    IF phase = "constructed"
    THEN << "Channel not initialized" >>
    ELSE << "Channel not connected" >>

\* C40: the connected flag gates only outbound traffic: while the channel is not connected
\* (before start(), or after stop()) sendMessage returns success:false ('Channel not
\* initialized' or 'Channel not connected') without any HTTP request and without changing
\* session, allowlist or health state; an inbound message webhook is access-checked,
\* recorded as a session and forwarded whether the channel is connected or not; start()
\* keeps the session map and the allowlist and re-enables sending
C40_ConnectedGatesOutboundOnly ==
    [][ /\ (last'.op = "sendMessage" /\ ~connected) =>
               /\ calls'["A"].pc = "done"
               /\ ~calls'["A"].result.success
               /\ calls'["A"].result.error = RefusalWhenDown
               /\ calls'["A"].ffPosts + calls'["A"].tplPosts = 0
               /\ sessions' = sessions
               /\ allowlist' = allowlist
               /\ probe' = probe
        /\ (last'.op = "sendMessage" /\ connected) =>
               calls'["A"].result.error \notin { << "Channel not initialized" >>,
                                                 << "Channel not connected" >> }
        /\ (last'.op = "handleWebhook" /\ last'.body.type = "message" /\ hasWebhookHandler) =>
               IF AllowedNow(KeyOf(last'.body.phone))
               THEN /\ Forwarded
                    /\ KeyOf(last'.body.phone) \in DOMAIN sessions'
                    /\ sessions'[KeyOf(last'.body.phone)].lastMessageAt = now
               ELSE /\ ~Forwarded
                    /\ sessions' = sessions
        /\ last'.op \in { "start", "stop" } =>
               /\ sessions' = sessions
               /\ allowlist' = allowlist
               /\ probe' = probe
        /\ (last'.op = "start" /\ phase = "initialized") => connected'
        /\ last'.op = "stop" => ~connected' ]_vars

\* a channel that holds a session and was started (only start() moves the channel's last
\* activity past that of the account records) and stopped again refused a send
C40_Witness ==
    /\ last.op = "sendMessage"
    /\ phase = "initialized"
    /\ ~connected
    /\ \A n \in DOMAIN probe.statuses : probe.statuses[n].lastActivity < lastActivity
    /\ sessions # EmptyMap
    /\ calls["A"].result.error = << "Channel not connected" >>

\* a message webhook received by a stopped channel was recorded and forwarded
C40_InboundWhileStopped ==
    /\ last.op = "handleWebhook"
    /\ ~connected
    /\ phase = "initialized"
    /\ Len(last.cbs) = 1
    /\ last.cbs[1].cb = "onMessage"
    /\ sessions # EmptyMap

====
